---- MODULE Spec2Model ----
(***************************************************************************)
(* Options-chain analytics and signal engine.                              *)
(*                                                                         *)
(*   src/src/signals/signal_engine.py   classify_buildup, detect_signal_row *)
(*   src/src/nse_chain/analytics.py     classify_build_up                   *)
(*   src/src/analytics/analytics.py     oi_skew                             *)
(*                                                                         *)
(* The functions are pure.  Each has its own specification: Init draws the *)
(* arguments of one call from bounded sets and the action applies the      *)
(* function as the code computes it.                                       *)
(***************************************************************************)
EXTENDS Integers, Sequences, FiniteSets, TLC

VARIABLES
    row,              \* detect_signal_row: the row argument
    underlying_spot,  \* detect_signal_row: the underlying_spot argument
    sig_pc,           \* "idle" | "start" | "done" (returned) | "raised"
    sig_ret,          \* the returned tuple <<signal, reason_text, score>>, <<>> before
    cls_price_change, \* the classifiers: price_change argument
    cls_oi_change,    \* the classifiers: oi_change argument
    cls_engine,       \* value returned by classify_buildup, or "pending"
    cls_chain,        \* value returned by classify_build_up, or "pending"
    ce_oi,            \* oi_skew: ce_oi argument
    pe_oi,            \* oi_skew: pe_oi argument
    skew_pc,          \* "idle" | "start" | "done"
    skew_ret,         \* the returned tuple <<diff, ratio>>, <<>> before
    call,             \* one call of another function: [fn |-> name, args |-> arguments]
    call_pc,          \* "idle" | "start" | "done" (returned) | "raised"
    call_ret,         \* the returned value, or the exception's name; <<>> before
    oracle,           \* the values of the transcendental expressions of this call,
                      \* which the model does not compute: [closed_form, exp],
                      \* each a function of the arguments
    locals,           \* a function that runs step by step: its local variables
    pc,               \* and the statement it is at; "idle" when none runs
    world             \* what outlives a call: the facade object and what its
                      \* caller was handed, the requests sent, the files saved

sigVars  == <<row, underlying_spot, sig_pc, sig_ret>>
clsVars  == <<cls_price_change, cls_oi_change, cls_engine, cls_chain>>
skewVars == <<ce_oi, pe_oi, skew_pc, skew_ret>>
callVars == <<call, call_pc, call_ret, oracle>>
runVars  == <<locals, pc, world>>
vars     == <<sigVars, clsVars, skewVars, callVars, runVars>>

(***************************************************************************)
(* Bounds.                                                                 *)
(***************************************************************************)
\* price / OI changes and OI differences of a signal row lie in -MaxChange..MaxChange
MaxChange == 1
\* arguments of the build-up classifiers lie in -MaxDelta..MaxDelta
MaxDelta == 2
\* open interest handed to oi_skew lies in -MaxOI..MaxOI
MaxOI == 6
\* volumes and average volumes lie in 0..MaxVolume, their OI changes in
\* -MaxVolume..MaxVolume
MaxVolume == 3
\* a session with a facade object makes at most MaxCalls method calls
MaxCalls == 3
\* market and theoretical premiums handed to premium_misalignment lie in
\* -MaxPremium..MaxPremium
MaxPremium == 5

(***************************************************************************)
(* Python / pandas scalars.  A cell of a row is a number, NaN (the missing *)
(* value of a float column) or None (the missing value of an object        *)
(* column).  pd.isna is True for NaN and for None.  An ordered comparison  *)
(* with NaN is False; an ordered comparison or a subtraction with None     *)
(* raises TypeError.                                                       *)
(***************************************************************************)
Num(n) == [k |-> "num", v |-> n]
NaN == [k |-> "nan", v |-> 0]
NoneV == [k |-> "none", v |-> 0]
isna(x) == x.k \in {"nan", "none"}

\* the outcome of evaluating a condition: True, False, or an exception
True == "True"
False == "False"
TypeError == "TypeError"

\* a value that was never computed because its expression raised TypeError
Raised == [k |-> "TypeError", v |-> 0]

\* a > b
py_gt(a, b) ==
    IF a.k = "none" \/ b.k = "none" THEN TypeError
    ELSE IF a.k = "num" /\ b.k = "num" /\ a.v > b.v THEN True ELSE False
\* a < b
py_lt(a, b) ==
    IF a.k = "none" \/ b.k = "none" THEN TypeError
    ELSE IF a.k = "num" /\ b.k = "num" /\ a.v < b.v THEN True ELSE False
\* a >= b, a <= b
py_ge(a, b) ==
    IF a.k = "none" \/ b.k = "none" THEN TypeError
    ELSE IF a.k = "num" /\ b.k = "num" /\ a.v >= b.v THEN True ELSE False
py_le(a, b) ==
    IF a.k = "none" \/ b.k = "none" THEN TypeError
    ELSE IF a.k = "num" /\ b.k = "num" /\ a.v <= b.v THEN True ELSE False
\* a - b
py_sub(a, b) ==
    IF a.k = "none" \/ b.k = "none" THEN Raised
    ELSE IF a.k = "nan" \/ b.k = "nan" THEN NaN ELSE Num(a.v - b.v)
\* x and y: y is evaluated only when x is True
py_and(x, y) == IF x = True THEN y ELSE x
\* x or y: y is evaluated only when x is False
py_or(x, y) == IF x = False THEN y ELSE x
\* if cond: return a / else continue with b; an exception in cond propagates
py_if(cond, a, b) == IF cond = TypeError THEN TypeError ELSE IF cond = True THEN a ELSE b

\* Python's None as a returned signal
None == "None"

\* what a call does: it returns a value or raises
Return(value) == [exc |-> "", ret |-> value]
Raise(e) == [exc |-> e, ret |-> <<>>]

RECURSIVE join(_, _)
\* sep.join(parts)
join(sep, parts) ==
    IF parts = <<>> THEN ""
    ELSE IF Len(parts) = 1 THEN parts[1]
    ELSE parts[1] \o sep \o join(sep, Tail(parts))

(***************************************************************************)
(* src/src/signals/signal_engine.py                                        *)
(***************************************************************************)
classify_buildup(price_change, oi_change) ==
    py_if(py_and(py_gt(price_change, Num(0)), py_gt(oi_change, Num(0))), "LONG_BUILDUP",
    py_if(py_and(py_lt(price_change, Num(0)), py_gt(oi_change, Num(0))), "SHORT_BUILDUP",
    py_if(py_and(py_gt(price_change, Num(0)), py_lt(oi_change, Num(0))), "SHORT_COVERING",
    py_if(py_and(py_lt(price_change, Num(0)), py_lt(oi_change, Num(0))), "LONG_UNWINDING",
    "NEUTRAL"))))

\* --- 1. Build-ups ---
ce_bu(r) == classify_buildup(r.price_change_CE, r.oi_change_CE)
pe_bu(r) == classify_buildup(r.price_change_PE, r.oi_change_PE)

\* --- 2. OI-diff flip ---
\* (mutant: only the flip from positive to negative is seen)
oi_flip_one_way(r) ==
    py_and(py_gt(r.oi_diff_prev, Num(0)), py_lt(r.oi_diff, Num(0)))
oi_flip(r) ==
    py_or(py_and(py_gt(r.oi_diff_prev, Num(0)), py_lt(r.oi_diff, Num(0))),
          py_and(py_lt(r.oi_diff_prev, Num(0)), py_gt(r.oi_diff, Num(0))))

\* --- 3. IV Skew ---
iv_skew(r) == py_sub(r.iv_pe, r.iv_ce)

\* --- 4. Price relation to strike ---
\* (mutants: the comparison made non-strict)
above_strike_ge(r, spot) == py_ge(spot, r.strike)
below_strike_le(r, spot) == py_le(spot, r.strike)
above_strike(r, spot) == py_gt(spot, r.strike)
below_strike(r, spot) == py_lt(spot, r.strike)

\* the condition of the CALL BUY block (the two nested ifs)
call_fires(r, spot) ==
    /\ above_strike(r, spot) = True
    /\ ce_bu(r) \in {"SHORT_COVERING", "LONG_BUILDUP"}
    /\ pe_bu(r) \in {"LONG_UNWINDING", "SHORT_BUILDUP"}

\* the condition of the PUT BUY block (the two nested ifs)
put_fires(r, spot) ==
    /\ below_strike(r, spot) = True
    /\ pe_bu(r) \in {"SHORT_COVERING", "LONG_BUILDUP"}
    /\ ce_bu(r) \in {"LONG_UNWINDING", "SHORT_BUILDUP"}

\* (mutant: the base weight of a CALL_BUY is 3)
call_buy_base3(l, r) ==
    LET a == [signal  |-> "CALL_BUY",
              reasons |-> Append(l.reasons, "CE " \o ce_bu(r) \o ", PE " \o pe_bu(r)),
              score   |-> l.score + 3]
        b == IF oi_flip(r) = True
             THEN [a EXCEPT !.reasons = Append(@, "OI difference flipped toward CE"),
                            !.score = @ + 1]
             ELSE a
    IN  IF py_lt(iv_skew(r), Num(0)) = True
        THEN [b EXCEPT !.reasons = Append(@, "IV skew favourable for calls (CE IV rising)"),
                       !.score = @ + 1]
        ELSE b

\* (mutant: a zero IV skew counts as favourable for calls)
call_buy_iv_le(l, r) ==
    LET a == [signal  |-> "CALL_BUY",
              reasons |-> Append(l.reasons, "CE " \o ce_bu(r) \o ", PE " \o pe_bu(r)),
              score   |-> l.score + 2]
        b == IF oi_flip(r) = True
             THEN [a EXCEPT !.reasons = Append(@, "OI difference flipped toward CE"),
                            !.score = @ + 1]
             ELSE a
    IN  IF py_le(iv_skew(r), Num(0)) = True
        THEN [b EXCEPT !.reasons = Append(@, "IV skew favourable for calls (CE IV rising)"),
                       !.score = @ + 1]
        ELSE b

\* the body of the CALL BUY block, on the locals l = [signal, reasons, score]
call_buy(l, r) ==
    LET a == [signal  |-> "CALL_BUY",
              reasons |-> Append(l.reasons, "CE " \o ce_bu(r) \o ", PE " \o pe_bu(r)),
              score   |-> l.score + 2]
        b == IF oi_flip(r) = True
             THEN [a EXCEPT !.reasons = Append(@, "OI difference flipped toward CE"),
                            !.score = @ + 1]
             ELSE a
    IN  IF py_lt(iv_skew(r), Num(0)) = True
        THEN [b EXCEPT !.reasons = Append(@, "IV skew favourable for calls (CE IV rising)"),
                       !.score = @ + 1]
        ELSE b

\* (mutant: the IV test of the CALL BUY block copied into the PUT BUY block)
put_buy_iv_lt(l, r) ==
    LET a == [signal  |-> "PUT_BUY",
              reasons |-> Append(l.reasons, "PE " \o pe_bu(r) \o ", CE " \o ce_bu(r)),
              score   |-> l.score + 2]
        b == IF oi_flip(r) = True
             THEN [a EXCEPT !.reasons = Append(@, "OI difference flipped toward PE"),
                            !.score = @ + 1]
             ELSE a
    IN  IF py_lt(iv_skew(r), Num(0)) = True
        THEN [b EXCEPT !.reasons = Append(@, "IV skew favourable for puts (PE IV rising)"),
                       !.score = @ + 1]
        ELSE b

\* the body of the PUT BUY block, on the locals l = [signal, reasons, score]
put_buy(l, r) ==
    LET a == [signal  |-> "PUT_BUY",
              reasons |-> Append(l.reasons, "PE " \o pe_bu(r) \o ", CE " \o ce_bu(r)),
              score   |-> l.score + 2]
        b == IF oi_flip(r) = True
             THEN [a EXCEPT !.reasons = Append(@, "OI difference flipped toward PE"),
                            !.score = @ + 1]
             ELSE a
    IN  IF py_gt(iv_skew(r), Num(0)) = True
        THEN [b EXCEPT !.reasons = Append(@, "IV skew favourable for puts (PE IV rising)"),
                       !.score = @ + 1]
        ELSE b

\* the statements of lines 26-40 raise when they meet a None
locals_raise(r, spot) ==
    \/ ce_bu(r) = TypeError
    \/ pe_bu(r) = TypeError
    \/ oi_flip(r) = TypeError
    \/ iv_skew(r) = Raised
    \/ above_strike(r, spot) = TypeError
    \/ below_strike(r, spot) = TypeError

\* (mutant: the safety check needs both price changes to be missing)
detect_signal_row_and(r, spot) ==
    IF isna(r.price_change_CE) /\ isna(r.price_change_PE)
    THEN Return(<<None, "", 0>>)
    ELSE IF locals_raise(r, spot)
    THEN Raise(TypeError)
    ELSE LET l0 == [signal |-> None, reasons |-> <<>>, score |-> 0]
             l1 == IF call_fires(r, spot) THEN call_buy(l0, r) ELSE l0
             l2 == IF put_fires(r, spot) THEN put_buy(l1, r) ELSE l1
         IN  Return(<<l2.signal, join("; ", l2.reasons), l2.score>>)

detect_signal_row(r, spot) ==
    IF isna(r.price_change_CE) \/ isna(r.price_change_PE)
    THEN Return(<<None, "", 0>>)
    ELSE IF locals_raise(r, spot)
    THEN Raise(TypeError)
    ELSE LET l0 == [signal |-> None, reasons |-> <<>>, score |-> 0]
             l1 == IF call_fires(r, spot) THEN call_buy(l0, r) ELSE l0
             l2 == IF put_fires(r, spot) THEN put_buy(l1, r) ELSE l1
         IN  Return(<<l2.signal, join("; ", l2.reasons), l2.score>>)

(***************************************************************************)
(* src/src/nse_chain/analytics.py                                          *)
(***************************************************************************)
\* (mutant: the third and fourth branches test the price change the other way round)
classify_build_up_swapped(price_change, oi_change) ==
    py_if(py_and(py_gt(price_change, Num(0)), py_gt(oi_change, Num(0))), "long_build_up",
    py_if(py_and(py_lt(price_change, Num(0)), py_gt(oi_change, Num(0))), "short_build_up",
    py_if(py_and(py_lt(price_change, Num(0)), py_lt(oi_change, Num(0))), "short_covering",
    py_if(py_and(py_gt(price_change, Num(0)), py_lt(oi_change, Num(0))), "long_unwinding",
    "neutral"))))

classify_build_up(price_change, oi_change) ==
    py_if(py_and(py_gt(price_change, Num(0)), py_gt(oi_change, Num(0))), "long_build_up",
    py_if(py_and(py_lt(price_change, Num(0)), py_gt(oi_change, Num(0))), "short_build_up",
    py_if(py_and(py_gt(price_change, Num(0)), py_lt(oi_change, Num(0))), "short_covering",
    py_if(py_and(py_lt(price_change, Num(0)), py_lt(oi_change, Num(0))), "long_unwinding",
    "neutral"))))

(***************************************************************************)
(* src/src/analytics/analytics.py                                          *)
(***************************************************************************)
RECURSIVE gcd(_, _)
gcd(a, b) == IF b = 0 THEN a ELSE gcd(b, a % b)
abs(n) == IF n < 0 THEN -n ELSE n

\* a / b of two ints (b # 0): the quotient, kept exact as a fraction in lowest
\* terms with a positive denominator
truediv(a, b) ==
    LET g == gcd(abs(a), abs(b))
        s == IF b < 0 THEN -1 ELSE 1
    IN  [num |-> (s * a) \div g, den |-> (s * b) \div g]

\* the float literal 0.0
FloatZero == [num |-> 0, den |-> 1]

\* (mutant: the difference is taken before the zero check and returned by it)
oi_skew_diff_first(ce, pe) ==
    LET total == ce + pe
        diff == ce - pe
        ratio == truediv(diff, total)
    IN  IF total = 0 THEN <<diff, FloatZero>> ELSE <<diff, ratio>>

\* (mutant: the difference taken the other way round)
oi_skew_swapped(ce, pe) ==
    LET total == ce + pe
        diff == pe - ce
        ratio == truediv(diff, total)
    IN  IF total = 0 THEN <<0, FloatZero>> ELSE <<diff, ratio>>

oi_skew(ce, pe) ==
    LET total == ce + pe
        diff == ce - pe
        ratio == truediv(diff, total)
    IN  IF total = 0 THEN <<0, FloatZero>> ELSE <<diff, ratio>>

(***************************************************************************)
(* Python floats, kept exact: a float is the fraction [num, den] in lowest *)
(* terms with den > 0.                                                     *)
(***************************************************************************)
\* float(n) of an int
float(n) == [num |-> n, den |-> 1]
\* the value of a division whose divisor is zero: Python raises ZeroDivisionError
ZeroDivision == [num |-> 0, den |-> 0]
\* a / b of two ints
int_div(a, b) == IF b = 0 THEN ZeroDivision ELSE truediv(a, b)
\* x + y, x - y, x * y, x / y of two floats
f_add(x, y) == truediv(x.num * y.den + y.num * x.den, x.den * y.den)
f_sub(x, y) == truediv(x.num * y.den - y.num * x.den, x.den * y.den)
f_mul(x, y) == truediv(x.num * y.num, x.den * y.den)
f_div(x, y) == IF y.num = 0 THEN ZeroDivision ELSE truediv(x.num * y.den, x.den * y.num)
\* x < y, max(x, y), min(x, y)
f_lt(x, y) == x.num * y.den < y.num * x.den
f_max(x, y) == IF f_lt(x, y) THEN y ELSE x
f_min(x, y) == IF f_lt(y, x) THEN y ELSE x
\* x <= y
f_le(x, y) == ~f_lt(y, x)
\* -x
f_neg(x) == [num |-> -x.num, den |-> x.den]
\* abs(x)
f_abs(x) == [num |-> abs(x.num), den |-> x.den]

\* how a call ends: the program counter and the value it leaves
Finish(out) ==
    /\ call_pc' = IF out.exc = "" THEN "done" ELSE "raised"
    /\ call_ret' = IF out.exc = "" THEN out.ret ELSE out.exc

(***************************************************************************)
(* 2) Volume-OI efficiency                                                 *)
(***************************************************************************)
\* (mutant: only the average volume is checked for zero)
volume_oi_efficiency_avg_only(volume, oi_change, avg_volume) ==
    LET a == int_div(volume, avg_volume)
        b == int_div(oi_change, volume)
    IN  IF avg_volume = 0 THEN Return(FloatZero)
        ELSE IF a = ZeroDivision \/ b = ZeroDivision THEN Raise("ZeroDivisionError")
        ELSE Return(f_mul(a, b))

volume_oi_efficiency(volume, oi_change, avg_volume) ==
    LET a == int_div(volume, avg_volume)
        b == int_div(oi_change, volume)
    IN  IF avg_volume = 0 \/ volume = 0 THEN Return(FloatZero)
        ELSE IF a = ZeroDivision \/ b = ZeroDivision THEN Raise("ZeroDivisionError")
        ELSE Return(f_mul(a, b))

(***************************************************************************)
(* 3) Cost-of-carry & premium mispricing (Black-Scholes)                   *)
(***************************************************************************)
\* math.exp(x): exactly 1.0 at 0, otherwise a float the model does not
\* compute, held by the oracle
math_exp(x) == IF x.num = 0 THEN float(1) ELSE oracle.exp[x]

\* lines 96-99, the closed form.  S / K raises ZeroDivisionError for K = 0 and
\* math.log raises ValueError for S / K <= 0; otherwise the price is a float
\* the model does not compute: the oracle holds it, per argument tuple.
bs_closed_form(S, K, r, sigma, tau) ==
    IF K.num = 0 THEN Raise("ZeroDivisionError")
    ELSE IF f_le(f_div(S, K), FloatZero) THEN Raise("ValueError")
    ELSE Return(oracle.closed_form[<<S, K, r, sigma, tau>>])

\* (mutant: only the time to expiry is checked)
bs_call_price_tau_only(S, K, r, sigma, tau) ==
    IF f_le(tau, FloatZero)
    THEN Return(f_max(FloatZero, f_sub(S, K)))
    ELSE bs_closed_form(S, K, r, sigma, tau)

bs_call_price(S, K, r, sigma, tau) ==
    IF f_le(tau, FloatZero) \/ f_le(sigma, FloatZero)
    THEN Return(f_max(FloatZero, f_sub(S, K)))
    ELSE bs_closed_form(S, K, r, sigma, tau)

\* (mutant: a zero theoretical premium always gives 0.0)
premium_misalignment_zero(market_premium, theoretical_premium) ==
    IF theoretical_premium.num = 0
    THEN FloatZero
    ELSE f_div(f_sub(market_premium, theoretical_premium), theoretical_premium)

premium_misalignment(market_premium, theoretical_premium) ==
    IF theoretical_premium.num = 0
    THEN (IF market_premium.num # 0 THEN market_premium ELSE FloatZero)
    ELSE f_div(f_sub(market_premium, theoretical_premium), theoretical_premium)

(***************************************************************************)
(* 4) Gamma exposure approximation                                         *)
(***************************************************************************)
\* the default of eps_rel, 0.0005
eps_rel == truediv(5, 10000)

\* lines 118-125: the three prices in the order they are computed, the
\* first exception ending the call
approx_delta_gamma(S, K, r, sigma, tau) ==
    LET eps == f_max(truediv(1, 10000), f_mul(S, eps_rel))
        c_up == bs_call_price(f_add(S, eps), K, r, sigma, tau)
        c == bs_call_price(S, K, r, sigma, tau)
        c_down == bs_call_price(f_sub(S, eps), K, r, sigma, tau)
    IN  IF c_up.exc # "" THEN c_up
        ELSE IF c.exc # "" THEN c
        ELSE IF c_down.exc # "" THEN c_down
        ELSE Return(<<f_div(f_sub(c_up.ret, c_down.ret), f_mul(float(2), eps)),
                      f_div(f_add(f_sub(c_up.ret, f_mul(float(2), c.ret)), c_down.ret),
                            f_mul(eps, eps))>>)

gamma_exposure_per_strike(S, K, r, sigma, tau, oi, contract_size) ==
    LET dg == approx_delta_gamma(S, K, r, sigma, tau)
        notional == f_mul(S, float(contract_size))
    IN  IF dg.exc # "" THEN dg
        ELSE Return(f_mul(f_mul(dg.ret[2], notional), float(oi)))

(***************************************************************************)
(* 5) Volatility smile analysis                                            *)
(***************************************************************************)
\* sorted(S) of a set of floats: its elements in ascending order
sorted(S) ==
    CHOOSE q \in [1..Cardinality(S) -> S] :
        \A i, j \in 1..Cardinality(S) : i < j => f_lt(q[i], q[j])

RECURSIVE sum(_)
\* sum(vals) of a list of floats
sum(vals) == IF vals = <<>> THEN FloatZero ELSE f_add(Head(vals), sum(Tail(vals)))

\* float(np.mean(vals)) of a non-empty list
mean(vals) == f_div(sum(vals), float(Len(vals)))

\* [iv_map[s] for s in kept]
iv_list(iv_map, kept) == [i \in 1..Len(kept) |-> iv_map[kept[i]]]

\* lines 155-160, from the two lists on
skew_metrics(left, right) ==
    LET left_avg == IF left # <<>> THEN mean(left) ELSE FloatZero
        right_avg == IF right # <<>> THEN mean(right) ELSE FloatZero
    IN  [left_avg     |-> left_avg,
         right_avg    |-> right_avg,
         overall_skew |-> f_sub(right_avg, left_avg),
         steepness    |-> f_sub(f_max(left_avg, right_avg), f_min(left_avg, right_avg))]

\* (mutant: the ATM strike itself counts as a left strike)
vol_skew_curve_le(iv_map, atm_strike) ==
    LET strikes == sorted(DOMAIN iv_map)
    IN  IF strikes = <<>>
        THEN [left_avg |-> FloatZero, right_avg |-> FloatZero,
              overall_skew |-> FloatZero, steepness |-> FloatZero]
        ELSE skew_metrics(
                iv_list(iv_map, SelectSeq(strikes, LAMBDA s : f_le(s, atm_strike))),
                iv_list(iv_map, SelectSeq(strikes, LAMBDA s : f_lt(atm_strike, s))))

vol_skew_curve(iv_map, atm_strike) ==
    LET strikes == sorted(DOMAIN iv_map)
    IN  IF strikes = <<>>
        THEN [left_avg |-> FloatZero, right_avg |-> FloatZero,
              overall_skew |-> FloatZero, steepness |-> FloatZero]
        ELSE skew_metrics(
                iv_list(iv_map, SelectSeq(strikes, LAMBDA s : f_lt(s, atm_strike))),
                iv_list(iv_map, SelectSeq(strikes, LAMBDA s : f_lt(atm_strike, s))))

(***************************************************************************)
(* OptionChainAnalyzer, the facade over one snapshot.  self is the record  *)
(* [snapshot, spot, future, r, contract_size] that __init__ builds; a      *)
(* snapshot maps a strike to a dict, a function from the keys it has.      *)
(***************************************************************************)
\* d.get(key, default)
get(d, key, default) == IF key \in DOMAIN d THEN d[key] ELSE default

\* lines 293-301, one strike of the map: the outcome of the bs_call_price
\* call, and the entry when it returned
ce_th(self, s, tau_years) ==
    bs_call_price(self.spot, s, self.r, get(self.snapshot[s], "ce_iv", truediv(1, 5)),
                  tau_years)

\* (mutant: the strike is not discounted)
put_th_undiscounted(self, s, tau_years) ==
    f_sub(f_add(ce_th(self, s, tau_years).ret, s), self.spot)

\* put-call parity: P = C + K * exp(-r * t) - S
put_th(self, s, tau_years) ==
    f_sub(f_add(ce_th(self, s, tau_years).ret,
                f_mul(s, math_exp(f_mul(f_neg(self.r), tau_years)))),
          self.spot)

pe_misal(self, s, tau_years) ==
    LET pe_market == get(self.snapshot[s], "pe_price", FloatZero)
        th == put_th(self, s, tau_years)
    IN  premium_misalignment(pe_market, IF th.num # 0 THEN th ELSE pe_market)

theoretical_vs_market_entry(self, s, tau_years) ==
    LET d == self.snapshot[s]
        ce_market == get(d, "ce_price", FloatZero)
    IN  [ce_theoretical |-> ce_th(self, s, tau_years).ret,
         ce_market      |-> ce_market,
         ce_misal       |-> premium_misalignment(ce_market, ce_th(self, s, tau_years).ret),
         pe_theoretical |-> put_th(self, s, tau_years),
         pe_market      |-> get(d, "pe_price", FloatZero),
         pe_misal       |-> pe_misal(self, s, tau_years)]

\* lines 290-303: an exception of bs_call_price at one strike ends the loop
\* and the call
theoretical_vs_market_map(self, tau_years) ==
    LET raising == {s \in DOMAIN self.snapshot : ce_th(self, s, tau_years).exc # ""}
    IN  IF raising # {}
        THEN Raise(ce_th(self, CHOOSE s \in raising : TRUE, tau_years).exc)
        ELSE Return([s \in DOMAIN self.snapshot |->
                        theoretical_vs_market_entry(self, s, tau_years)])

\* the keys of a snapshot in the order .items() yields them: insertion order,
\* taken to be ascending strike order, the order a chain is built in
keys(snapshot) == sorted(DOMAIN snapshot)

\* a loop "for s, d in self.snapshot.items(): out[s] = ..." over the outcomes
\* outs[s] of its body: the first exception ends the loop and the call
collect(outs) ==
    LET order == keys(outs)
        raising == {i \in 1..Len(order) : outs[order[i]].exc # ""}
    IN  IF raising # {}
        THEN outs[order[CHOOSE i \in raising : \A j \in raising : i <= j]]
        ELSE Return([s \in DOMAIN outs |-> outs[s].ret])

\* lines 46-52
oi_skew_map(strike_map) ==
    [k \in DOMAIN strike_map |->
        [ce_oi |-> strike_map[k][1],
         pe_oi |-> strike_map[k][2],
         diff  |-> oi_skew(strike_map[k][1], strike_map[k][2])[1],
         ratio |-> oi_skew(strike_map[k][1], strike_map[k][2])[2]]]

compute_oi_skew_map(self) ==
    Return(oi_skew_map([s \in DOMAIN self.snapshot |->
                <<get(self.snapshot[s], "ce_oi", 0), get(self.snapshot[s], "pe_oi", 0)>>]))

\* lines 271-273 of one strike
vol_of(d) == get(d, "ce_vol", 0) + get(d, "pe_vol", 0)
oi_change_of(d) == get(d, "ce_oi_change", 0) + get(d, "pe_oi_change", 0)

compute_volume_oi_efficiency_map(self, avg_volume_map) ==
    collect([s \in DOMAIN self.snapshot |->
                volume_oi_efficiency(vol_of(self.snapshot[s]), oi_change_of(self.snapshot[s]),
                                     get(avg_volume_map, s, 0))])

\* lines 280-281: the IVs that are there, CE first
ivs(d) ==
    (IF "ce_iv" \in DOMAIN d THEN <<d["ce_iv"]>> ELSE <<>>)
        \o (IF "pe_iv" \in DOMAIN d THEN <<d["pe_iv"]>> ELSE <<>>)

gamma_sigma(d) == IF ivs(d) # <<>> THEN mean(ivs(d)) ELSE truediv(1, 5)

\* (mutant: a strike without any IV gets no entry)
compute_gamma_exposure_map_skip(self, tau_years) ==
    collect([s \in {k \in DOMAIN self.snapshot : ivs(self.snapshot[k]) # <<>>} |->
                gamma_exposure_per_strike(
                    self.spot, s, self.r, gamma_sigma(self.snapshot[s]), tau_years,
                    get(self.snapshot[s], "ce_oi", 0) + get(self.snapshot[s], "pe_oi", 0),
                    self.contract_size)])

compute_gamma_exposure_map(self, tau_years) ==
    collect([s \in DOMAIN self.snapshot |->
                gamma_exposure_per_strike(
                    self.spot, s, self.r, gamma_sigma(self.snapshot[s]), tau_years,
                    get(self.snapshot[s], "ce_oi", 0) + get(self.snapshot[s], "pe_oi", 0),
                    self.contract_size)])

compute_vol_smile(self, atm_strike) ==
    Return(vol_skew_curve(
        [s \in DOMAIN self.snapshot |->
            mean(<<get(self.snapshot[s], "ce_iv", FloatZero),
                   get(self.snapshot[s], "pe_iv", FloatZero)>>)],
        atm_strike))

(***************************************************************************)
(* 7) Cross-expiry analysis.  An expiry label is a str, kept as the tuple  *)
(* of its code points so that sorted() can compare two of them.            *)
(***************************************************************************)
RECURSIVE str_lt(_, _)
\* a < b of two str: the first differing code point decides, a proper
\* prefix is smaller
str_lt(a, b) ==
    IF b = <<>> THEN FALSE
    ELSE IF a = <<>> THEN TRUE
    ELSE IF Head(a) # Head(b) THEN Head(a) < Head(b)
    ELSE str_lt(Tail(a), Tail(b))

\* sorted(S) of a set of str
sorted_str(S) ==
    CHOOSE q \in [1..Cardinality(S) -> S] :
        \A i, j \in 1..Cardinality(S) : i < j => str_lt(q[i], q[j])

RECURSIVE int_sum(_)
\* sum(vals) of a list of int
int_sum(vals) == IF vals = <<>> THEN 0 ELSE Head(vals) + int_sum(Tail(vals))

\* (mutant: the plain midpoint)
split_half(vals) == Len(vals) \div 2

\* max(1, len(vals)//2)
split(vals) == IF Len(vals) \div 2 > 1 THEN Len(vals) \div 2 ELSE 1

\* vals[:max(1, len(vals)//2)] and vals[max(1, len(vals)//2):], summed
near(vals) == int_sum(SubSeq(vals, 1, split(vals)))
far(vals) == int_sum(SubSeq(vals, split(vals) + 1, Len(vals)))

\* (mutant: far >= near * 1.2 is enough)
rollover_signal_ge(vals) ==
    IF near(vals) > 0 /\ 10 * far(vals) >= 12 * near(vals)
    THEN "Rollover to far expiry"
    ELSE "Stable/No Rollover"

\* lines 218-221; far > near * 1.2 of two int below 2^53 / 12 is
\* 10 * far > 12 * near
rollover_signal(vals) ==
    IF near(vals) > 0 /\ 10 * far(vals) > 12 * near(vals)
    THEN "Rollover to far expiry"
    ELSE "Stable/No Rollover"

cross_expiry_rollover(oi_by_expiry) ==
    LET expiries == sorted_str(DOMAIN oi_by_expiry)
        strikes == UNION {DOMAIN oi_by_expiry[e] : e \in DOMAIN oi_by_expiry}
        strike_timeseries ==
            [s \in strikes |->
                [e \in DOMAIN oi_by_expiry |-> get(oi_by_expiry[e], s, 0)]]
        vals(s) == [i \in 1..Len(expiries) |-> strike_timeseries[s][expiries[i]]]
    IN  [expiries          |-> expiries,
         strike_timeseries |-> strike_timeseries,
         signals           |-> [s \in strikes |-> rollover_signal(vals(s))]]

(***************************************************************************)
(* 8) Signal identification helper                                         *)
(***************************************************************************)
\* (mutant: a volume equal to the average counts as above it)
identify_buildup_ge(volume, oi_change, avg_volume, price_change) ==
    IF volume >= avg_volume /\ oi_change > 0
    THEN (IF price_change > 0 THEN "Fresh Long Buildup" ELSE "Fresh Short Buildup")
    ELSE IF volume >= avg_volume /\ oi_change < 0
    THEN "Position Unwinding"
    ELSE "Neutral"

identify_buildup(volume, oi_change, avg_volume, price_change) ==
    IF volume > avg_volume /\ oi_change > 0
    THEN (IF price_change > 0 THEN "Fresh Long Buildup" ELSE "Fresh Short Buildup")
    ELSE IF volume > avg_volume /\ oi_change < 0
    THEN "Position Unwinding"
    ELSE "Neutral"

(***************************************************************************)
(* OptionChainAnalyzer.identify_top_buildups                               *)
(***************************************************************************)
\* sorted(eff_map.items(), key=lambda x: abs(x[1]), reverse=True): the strikes
\* by falling |score|, equal scores staying in the order of the map
scored(eff_map) ==
    CHOOSE q \in [1..Cardinality(DOMAIN eff_map) -> DOMAIN eff_map] :
        \A i, j \in 1..Cardinality(DOMAIN eff_map) :
            i < j => \/ f_lt(f_abs(eff_map[q[j]]), f_abs(eff_map[q[i]]))
                     \/ /\ f_abs(eff_map[q[j]]) = f_abs(eff_map[q[i]])
                        /\ f_lt(q[i], q[j])

identify_top_buildups(self, avg_volume_map, top_n) ==
    LET eff_map == compute_volume_oi_efficiency_map(self, avg_volume_map)
        order == scored(eff_map.ret)
        n == IF top_n < Len(order) THEN top_n ELSE Len(order)
    IN  IF eff_map.exc # "" THEN eff_map
        ELSE Return([i \in 1..n |->
                <<order[i],
                  identify_buildup(vol_of(self.snapshot[order[i]]),
                                   oi_change_of(self.snapshot[order[i]]),
                                   get(avg_volume_map, order[i], 0),
                                   get(self.snapshot[order[i]], "underlying_change", 0)),
                  eff_map.ret[order[i]]>>])

\* (mutant: the OI defaults are stored into the records, as d.setdefault
\* would do)
self_after_setdefault(self, fn) ==
    IF fn # "compute_oi_skew_map" THEN self
    ELSE [self EXCEPT !.snapshot =
            [s \in DOMAIN @ |->
                [k \in DOMAIN @[s] \cup {"ce_oi", "pe_oi"} |-> get(@[s], k, 0)]]]

\* the object after the method fn has run on it: no method assigns to an
\* attribute of self or stores into a record of the snapshot (d.get only
\* reads, every map returned is a new dict)
self_after(self, fn) == self

(***************************************************************************)
(* src/main.py                                                             *)
(***************************************************************************)
\* the keys of signals, in the order of the try blocks of lines 63-86
Dimensions ==
    <<"premium_discount", "volume_oi_spike", "reversal_signals", "oi_skew",
      "gamma_exposure">>

\* (mutant: the exception is swallowed and nothing is recorded)
try_compute_pass(signals, key, out) ==
    IF out.exc = "" THEN (key :> out.ret) @@ signals ELSE signals

\* one try block: signals[key] = <module>.compute(option_chain), or
\* {"error": str(e)} when that raised an Exception
try_compute(signals, key, out) ==
    IF out.exc = ""
    THEN (key :> out.ret) @@ signals
    ELSE (key :> [error |-> out.exc]) @@ signals

(***************************************************************************)
(* src/src/ingestion/nse_fetcher.py                                        *)
(***************************************************************************)
\* range(1, 6): the attempts of safe_get are numbered 1 to 5
LastAttempt == 5

\* the names bound at module level, and those bound in a call of safe_get
ModuleNames ==
    {"annotations", "requests", "time", "json", "os", "datetime", "Optional",
     "Dict", "Any", "Path", "DEFAULT_HEADERS", "create_session", "safe_get",
     "ensure_dir", "save_json", "get_option_chain", "get_quote",
     "get_futures", "download_fo_bhavcopy", "fetch_all"}
SafeGetNames ==
    {"session", "url", "params", "timeout", "last_exc", "attempt", "resp", "e"}

\* the value of a name read in safe_get: bound there or at module level, or
\* NameError
load_name(name, bound) ==
    IF name \in SafeGetNames \cup ModuleNames THEN Return(bound[name])
    ELSE Raise("NameError")

\* RuntimeError(f"Status {resp.status_code} for {url}")
status_error(status_code) ==
    CASE status_code = 403 -> "RuntimeError: Status 403"
      [] status_code = 503 -> "RuntimeError: Status 503"

\* line 51: the argument of time.sleep, backoff * attempt
sleep_seconds(attempt) ==
    LET backoff == load_name("backoff", [n \in {"attempt"} |-> attempt])
    IN  IF backoff.exc # "" THEN backoff ELSE Return(backoff.ret * attempt)

(***************************************************************************)
(* src/examples/real_fetch_example.py                                      *)
(*                                                                         *)
(* A text is the tuple of its characters.  A response of session.get is    *)
(* [text, content_type, json]: the start of its body, its content-type     *)
(* header ("" when it has none) and what response.json() makes of the      *)
(* body: [kind |-> "invalid"] raises JSONDecodeError, "dict" is a dict     *)
(* with the given keys whose "records", when present, is empty or not, and *)
(* "int" is a JSON number.                                                 *)
(***************************************************************************)
\* str.lower on a character of the texts used here
lower_char(c) ==
    CASE c = "D" -> "d" [] c = "O" -> "o" [] c = "C" -> "c" [] c = "T" -> "t"
      [] c = "Y" -> "y" [] c = "P" -> "p" [] c = "E" -> "e" [] c = "H" -> "h"
      [] c = "M" -> "m" [] c = "L" -> "l" [] OTHER -> c

lower(text) == [i \in 1..Len(text) |-> lower_char(text[i])]

\* str.strip of leading and trailing blanks
RECURSIVE lstrip(_)
lstrip(text) ==
    IF text # <<>> /\ Head(text) = " " THEN lstrip(Tail(text)) ELSE text

RECURSIVE rstrip(_)
rstrip(text) ==
    IF text # <<>> /\ text[Len(text)] = " "
    THEN rstrip(SubSeq(text, 1, Len(text) - 1))
    ELSE text

strip(text) == rstrip(lstrip(text))

\* tag in text
contains(text, tag) ==
    \E i \in 1..(Len(text) - Len(tag) + 1) :
        SubSeq(text, i, i + Len(tag) - 1) = tag

\* ['<!doctype html', '<html', '<!doctype', '<!html']
html_tags ==
    {<<"<", "!", "d", "o", "c", "t", "y", "p", "e", " ", "h", "t", "m", "l">>,
     <<"<", "h", "t", "m", "l">>,
     <<"<", "!", "d", "o", "c", "t", "y", "p", "e">>,
     <<"<", "!", "h", "t", "m", "l">>}

_is_html_response(text) ==
    LET text_lower == strip(lower(text))
    IN  \E html_tag \in html_tags : contains(text_lower, html_tag)

\* 'application/json' in content_type.lower(), over the headers used here
is_json_content_type(content_type) ==
    content_type \in {"application/json", "application/json; charset=utf-8",
                      "Application/JSON"}

\* a dict as a Python value
DictV(d) == [k |-> "dict", v |-> d]

\* the truth value of what fetch_json returns
truthy(value) ==
    CASE value.k = "none" -> FALSE
      [] value.k = "dict" -> value.v.keys # {}

\* the count of attempts of get_chain: range(1, 9)
LastChainAttempt == 8

\* the urls of get_chain, in order of priority
urls ==
    <<"option-chain-indices?symbol=", "option-chain-indices?symbol=&expiryDate=",
      "option-chain?symbol=">>

\* lines 92-125, the body of the try block of fetch_json: got is how
\* session.get ended
fetch_json_try(got) ==
    IF got.exc # "" THEN Raise(got.exc)
    ELSE LET response == got.ret
             data == response.json
         IN  IF _is_html_response(response.text) THEN Return(NoneV)
             ELSE IF ~is_json_content_type(response.content_type) THEN Return(NoneV)
             ELSE IF data.kind = "invalid" THEN Raise("JSONDecodeError")
             ELSE IF data.kind = "int" THEN Raise("TypeError")
             ELSE IF "error" \in data.keys THEN Return(NoneV)
             ELSE IF "records" \notin data.keys THEN Return(NoneV)
             ELSE IF data.records = "empty" THEN Return(NoneV)
             ELSE Return(DictV(data))

\* the exceptions that are an Exception
IsException(e) == e \notin {"KeyboardInterrupt", "SystemExit"}

\* (mutant: only the three named except clauses, without except Exception)
fetch_json_named(got) ==
    LET out == fetch_json_try(got)
    IN  IF out.exc \in {"JSONDecodeError", "Timeout", "ConnectionError"}
        THEN Return(NoneV)
        ELSE out

\* fetch_json: the try block with its four except clauses, each of which
\* returns None
fetch_json(got) ==
    LET out == fetch_json_try(got)
    IN  IF out.exc # "" /\ IsException(out.exc) THEN Return(NoneV) ELSE out

(***************************************************************************)
(* The arguments of a call.                                                *)
(***************************************************************************)
Volumes == 0..MaxVolume
VolumeOIChanges == -MaxVolume..MaxVolume
PriceMoves == {-1, 0, 1}
Premiums == {float(n) : n \in -MaxPremium..MaxPremium}
\* bs_call_price: spot and strike (zero and negative ones too), rate,
\* volatility and time to expiry in years
BsSpots == {float(-5), float(0), float(100), float(105)}
BsStrikes == {float(0), float(100), float(105)}
Rates == {float(0), truediv(3, 50)}
Sigmas == {float(-1), float(0), truediv(1, 5)}
Taus == {float(-1), float(0), truediv(30, 252)}
\* what the closed form may evaluate to
ClosedFormValues == {float(0), float(5), float(8)}
\* the argument tuples (S, K, r, sigma, tau) among ts at which bs_call_price
\* evaluates the closed form to a price
ClosedFormArgs(ts) ==
    {t \in ts : /\ f_lt(FloatZero, t[5]) /\ f_lt(FloatZero, t[4])
                /\ t[2].num # 0 /\ f_lt(FloatZero, f_div(t[1], t[2]))}
\* what math.exp(x) may evaluate to away from 0: below 1 for a negative x,
\* above 1 for a positive one
ExpValues(x) == IF x.num < 0 THEN {truediv(9, 10), truediv(1, 2)} ELSE {truediv(11, 10)}
\* the oracles of a call that evaluates the closed form at the tuples ts and
\* math.exp at the arguments xs, with the closed-form prices drawn from vs
Oracles(ts, vs, xs) ==
    [closed_form : [ClosedFormArgs(ts) -> vs],
     exp : {f \in [xs \ {FloatZero} -> UNION {ExpValues(x) : x \in xs}] :
                \A x \in xs \ {FloatZero} : f[x] \in ExpValues(x)}]
\* vol_skew_curve: strike -> iv maps over some of three strikes, and ATM
\* strikes among them and between them
SmileStrikes == {float(95), float(100), float(105)}
SmileIVs == {truediv(1, 10), truediv(1, 5), truediv(3, 10)}
IvMaps == UNION {[ks -> SmileIVs] : ks \in SUBSET SmileStrikes}
AtmStrikes == SmileStrikes \cup {float(102)}
\* cross_expiry_rollover: the expiry labels "W1", "M1" and "M2", and per
\* expiry an OI at some of two strikes
W1 == <<87, 49>>
M1 == <<77, 49>>
M2 == <<77, 50>>
Expiries == {W1, M1, M2}
RolloverStrikes == {100, 105}
RolloverOIs == {50, 200, 250, 300}
StrikeOIs == UNION {[ks -> RolloverOIs] : ks \in SUBSET RolloverStrikes}
OiByExpiry == UNION {[es -> StrikeOIs] : es \in SUBSET Expiries}
\* the facade's snapshots: the strikes of a chain, each with a dict of some
\* of the keys ce_iv, ce_price, pe_price
ChainStrikes == {float(100), float(105)}
DictValues(key) ==
    IF key = "ce_iv" THEN {float(0), truediv(1, 5)}
    ELSE IF key = "ce_price" THEN {float(0), float(5)}
    ELSE {float(0), float(2)}
Dicts ==
    UNION {{d \in [ks -> UNION {DictValues(k) : k \in ks}] :
                \A k \in ks : d[k] \in DictValues(k)} :
           ks \in SUBSET {"ce_iv", "ce_price", "pe_price"}}
Snapshots == UNION {[ks -> Dicts] : ks \in SUBSET ChainStrikes}
Analyzers ==
    [snapshot : Snapshots, spot : ChainStrikes, future : {float(100)},
     r : Rates, contract_size : {1}]
\* a facade object in use: an empty snapshot or one of two strikes, of full
\* records (every key of the docstring, and underlying_change) and empty ones
FieldValue(key) ==
    CASE key = "ce_oi" -> 6
      [] key = "pe_oi" -> 2
      [] key = "ce_vol" -> 3
      [] key = "pe_vol" -> 1
      [] key = "ce_oi_change" -> 2
      [] key = "pe_oi_change" -> -1
      [] key = "ce_iv" -> truediv(3, 10)
      [] key = "pe_iv" -> truediv(1, 10)
      [] key = "ce_price" -> float(5)
      [] key = "pe_price" -> float(2)
      [] key = "underlying_change" -> 1
Record(ks) == [k \in ks |-> FieldValue(k)]
RecordKeys ==
    {"ce_oi", "pe_oi", "ce_vol", "pe_vol", "ce_oi_change", "pe_oi_change",
     "ce_iv", "pe_iv", "ce_price", "pe_price", "underlying_change"}
SessionAnalyzers ==
    [snapshot : UNION {[ks -> {Record(RecordKeys), Record({})}] : ks \in {{}, ChainStrikes}},
     spot : {float(100)}, future : {float(100)}, r : {truediv(3, 50)}, contract_size : {1}]
\* the records that have some of the keys ks
RecordsOver(ks) == {Record(have) : have \in SUBSET ks}
\* a facade object whose two records have any of the keys ks, the keys the
\* method about to be called reads
AnalyzersOver(ks) ==
    [snapshot : [ChainStrikes -> RecordsOver(ks)],
     spot : ChainStrikes, future : {float(100)}, r : {truediv(3, 50)}, contract_size : {1}]
\* average-volume maps with an entry for some of the strikes
SparseAvgVolumeMaps == UNION {[ks -> {0, 2}] : ks \in SUBSET ChainStrikes}
\* the arguments of the method calls
SessionTaus == {float(0), truediv(30, 252)}
AvgVolumeMaps == {[ks \in ChainStrikes |-> 2], [ks \in {} |-> 2]}
TopNs == {1, 10}
\* process_symbol: the symbols of main(), and how a compute(option_chain) of
\* an analytics module can end: with a dict, or with an Exception
Symbols == {"NIFTY", "BANKNIFTY"}
ComputeOutcomes ==
    {Return([signal |-> "value"]), Raise("KeyError"), Raise("AttributeError")}
\* safe_get: the calls of get_option_chain (line 80) and download_fo_bhavcopy
\* (line 138), and how session.get can end: with a response of some status,
\* or with an exception of requests
SafeGetUrls == {"option-chain-indices", "fo-bhavcopy-zip", "fo-bhavcopy-csv"}
SafeGetParams == {"None", "NIFTY", "BANKNIFTY"}
SafeGetTimeouts == {15, 20}
GetOutcomes ==
    {Return([status_code |-> 200]), Return([status_code |-> 403]),
     Return([status_code |-> 503]), Raise("ConnectionError"), Raise("Timeout")}
\* get_chain: how a session.get of fetch_json can end
Texts ==
    {<<"{", "}">>, <<"<", "H", "T", "M", "L", ">">>,
     <<" ", "<", "!", "D", "o", "c", "t", "y", "p", "e", ">">>}
ContentTypes == {"application/json; charset=utf-8", "text/html", ""}
JsonBodies ==
    {[kind |-> "invalid", keys |-> {}, records |-> "empty"],
     [kind |-> "int", keys |-> {}, records |-> "empty"],
     [kind |-> "dict", keys |-> {}, records |-> "empty"],
     [kind |-> "dict", keys |-> {"error"}, records |-> "empty"],
     [kind |-> "dict", keys |-> {"error", "records"}, records |-> "full"],
     [kind |-> "dict", keys |-> {"message"}, records |-> "empty"],
     [kind |-> "dict", keys |-> {"records"}, records |-> "empty"],
     [kind |-> "dict", keys |-> {"records"}, records |-> "full"],
     [kind |-> "dict", keys |-> {"records", "filtered"}, records |-> "full"]}
Responses == [text : Texts, content_type : ContentTypes, json : JsonBodies]
SessionGets ==
    {Return(response) : response \in Responses}
        \cup {Raise("Timeout"), Raise("ConnectionError"), Raise("OSError")}
Changes == {Num(n) : n \in -MaxChange..MaxChange}
\* price_change_CE / price_change_PE: a number, NaN or None
PriceChanges == Changes \cup {NaN, NoneV}
\* oi_change_CE / oi_change_PE: a number or None
OIChanges == Changes \cup {NoneV}
\* oi_diff_prev: a number, or NaN on the first snapshot; oi_diff: a number
OIDiffsPrev == {Num(-1), Num(0), Num(1), NaN}
OIDiffs == {Num(-1), Num(0), Num(1)}
\* implied volatilities, in tenths: 0.2 and 0.5, or NaN when absent
IVs == {Num(2), Num(5), NaN}
Strikes == {Num(100)}
Spots == {Num(99), Num(100), Num(101)}

Rows ==
    [price_change_CE : PriceChanges, price_change_PE : PriceChanges,
     oi_change_CE : OIChanges, oi_change_PE : OIChanges,
     oi_diff_prev : OIDiffsPrev, oi_diff : OIDiffs,
     iv_pe : IVs, iv_ce : IVs, strike : Strikes]

Deltas == {Num(n) : n \in -MaxDelta..MaxDelta} \cup {NaN, NoneV}
OpenInterests == -MaxOI..MaxOI

SigIdle ==
    /\ row = [price_change_CE |-> NaN, price_change_PE |-> NaN,
              oi_change_CE |-> Num(0), oi_change_PE |-> Num(0),
              oi_diff_prev |-> NaN, oi_diff |-> Num(0),
              iv_pe |-> NaN, iv_ce |-> NaN, strike |-> Num(100)]
    /\ underlying_spot = Num(100)
    /\ sig_pc = "idle"
    /\ sig_ret = <<>>

ClsIdle ==
    /\ cls_price_change = Num(0)
    /\ cls_oi_change = Num(0)
    /\ cls_engine = "idle"
    /\ cls_chain = "idle"

SkewIdle ==
    /\ ce_oi = 0
    /\ pe_oi = 0
    /\ skew_pc = "idle"
    /\ skew_ret = <<>>

RunIdle ==
    /\ locals = <<>>
    /\ pc = "idle"
    /\ world = <<>>

\* a call that evaluates no transcendental expression
NoOracle == [closed_form |-> <<>>, exp |-> <<>>]

CallIdle ==
    /\ call = [fn |-> "none", args |-> <<>>]
    /\ call_pc = "idle"
    /\ call_ret = <<>>
    /\ oracle = NoOracle

(***************************************************************************)
(* detect_signal_row(row, underlying_spot)                                 *)
(***************************************************************************)
InitSignal ==
    /\ row \in Rows
    /\ underlying_spot \in Spots
    /\ sig_pc = "start"
    /\ sig_ret = <<>>
    /\ ClsIdle /\ SkewIdle /\ CallIdle /\ RunIdle

DetectSignalRow ==
    /\ sig_pc = "start"
    /\ LET out == detect_signal_row(row, underlying_spot)
       IN  /\ sig_pc' = IF out.exc = "" THEN "done" ELSE "raised"
           /\ sig_ret' = out.ret
    /\ UNCHANGED <<row, underlying_spot, clsVars, skewVars, callVars, runVars>>

SpecSignal == InitSignal /\ [][DetectSignalRow]_vars

(***************************************************************************)
(* classify_buildup and classify_build_up on the same arguments            *)
(***************************************************************************)
InitClassify ==
    /\ cls_price_change \in Deltas
    /\ cls_oi_change \in Deltas
    /\ cls_engine = "pending"
    /\ cls_chain = "pending"
    /\ SigIdle /\ SkewIdle /\ CallIdle /\ RunIdle

ClassifyBuildup ==
    /\ cls_engine = "pending"
    /\ cls_engine' = classify_buildup(cls_price_change, cls_oi_change)
    /\ UNCHANGED <<cls_price_change, cls_oi_change, cls_chain, sigVars, skewVars, callVars, runVars>>

ClassifyBuildUp ==
    /\ cls_chain = "pending"
    /\ cls_chain' = classify_build_up(cls_price_change, cls_oi_change)
    /\ UNCHANGED <<cls_price_change, cls_oi_change, cls_engine, sigVars, skewVars, callVars, runVars>>

NextClassify == ClassifyBuildup \/ ClassifyBuildUp

SpecClassify == InitClassify /\ [][NextClassify]_vars

(***************************************************************************)
(* oi_skew(ce_oi, pe_oi)                                                   *)
(***************************************************************************)
InitSkew ==
    /\ ce_oi \in OpenInterests
    /\ pe_oi \in OpenInterests
    /\ skew_pc = "start"
    /\ skew_ret = <<>>
    /\ SigIdle /\ ClsIdle /\ CallIdle /\ RunIdle

OiSkew ==
    /\ skew_pc = "start"
    /\ skew_ret' = oi_skew(ce_oi, pe_oi)
    /\ skew_pc' = "done"
    /\ UNCHANGED <<ce_oi, pe_oi, sigVars, clsVars, callVars, runVars>>

SpecSkew == InitSkew /\ [][OiSkew]_vars

(***************************************************************************)
(* volume_oi_efficiency(volume, oi_change, avg_volume)                     *)
(***************************************************************************)
InitEfficiency ==
    /\ call \in [fn : {"volume_oi_efficiency"},
                 args : [volume : Volumes, oi_change : VolumeOIChanges,
                         avg_volume : Volumes]]
    /\ call_pc = "start"
    /\ call_ret = <<>>
    /\ oracle = NoOracle
    /\ SigIdle /\ ClsIdle /\ SkewIdle /\ RunIdle

VolumeOiEfficiency ==
    /\ call_pc = "start"
    /\ call.fn = "volume_oi_efficiency"
    /\ Finish(volume_oi_efficiency(call.args.volume, call.args.oi_change,
                                   call.args.avg_volume))
    /\ UNCHANGED <<call, oracle, sigVars, clsVars, skewVars, runVars>>

SpecEfficiency == InitEfficiency /\ [][VolumeOiEfficiency]_vars

(***************************************************************************)
(* identify_buildup(volume, oi_change, avg_volume, price_change)           *)
(***************************************************************************)
InitBuildup ==
    /\ call \in [fn : {"identify_buildup"},
                 args : [volume : Volumes, oi_change : VolumeOIChanges,
                         avg_volume : Volumes, price_change : PriceMoves]]
    /\ call_pc = "start"
    /\ call_ret = <<>>
    /\ oracle = NoOracle
    /\ SigIdle /\ ClsIdle /\ SkewIdle /\ RunIdle

IdentifyBuildup ==
    /\ call_pc = "start"
    /\ call.fn = "identify_buildup"
    /\ Finish(Return(identify_buildup(call.args.volume, call.args.oi_change,
                                      call.args.avg_volume, call.args.price_change)))
    /\ UNCHANGED <<call, oracle, sigVars, clsVars, skewVars, runVars>>

SpecBuildup == InitBuildup /\ [][IdentifyBuildup]_vars

(***************************************************************************)
(* premium_misalignment(market_premium, theoretical_premium)               *)
(***************************************************************************)
InitMisalignment ==
    /\ call \in [fn : {"premium_misalignment"},
                 args : [market_premium : Premiums, theoretical_premium : Premiums]]
    /\ call_pc = "start"
    /\ call_ret = <<>>
    /\ oracle = NoOracle
    /\ SigIdle /\ ClsIdle /\ SkewIdle /\ RunIdle

PremiumMisalignment ==
    /\ call_pc = "start"
    /\ call.fn = "premium_misalignment"
    /\ Finish(Return(premium_misalignment(call.args.market_premium,
                                          call.args.theoretical_premium)))
    /\ UNCHANGED <<call, oracle, sigVars, clsVars, skewVars, runVars>>

SpecMisalignment == InitMisalignment /\ [][PremiumMisalignment]_vars

(***************************************************************************)
(* bs_call_price(S, K, r, sigma, tau)                                      *)
(***************************************************************************)
InitBsCall ==
    /\ call \in [fn : {"bs_call_price"},
                 args : [S : BsSpots, K : BsStrikes, r : Rates,
                         sigma : Sigmas, tau : Taus]]
    /\ call_pc = "start"
    /\ call_ret = <<>>
    /\ oracle \in Oracles({<<call.args.S, call.args.K, call.args.r,
                               call.args.sigma, call.args.tau>>},
                            ClosedFormValues, {})
    /\ SigIdle /\ ClsIdle /\ SkewIdle /\ RunIdle

BsCallPrice ==
    /\ call_pc = "start"
    /\ call.fn = "bs_call_price"
    /\ Finish(bs_call_price(call.args.S, call.args.K, call.args.r,
                            call.args.sigma, call.args.tau))
    /\ UNCHANGED <<call, oracle, sigVars, clsVars, skewVars, runVars>>

SpecBsCall == InitBsCall /\ [][BsCallPrice]_vars

(***************************************************************************)
(* vol_skew_curve(iv_map, atm_strike)                                      *)
(***************************************************************************)
InitVolSkew ==
    /\ call \in [fn : {"vol_skew_curve"},
                 args : [iv_map : IvMaps, atm_strike : AtmStrikes]]
    /\ call_pc = "start"
    /\ call_ret = <<>>
    /\ oracle = NoOracle
    /\ SigIdle /\ ClsIdle /\ SkewIdle /\ RunIdle

VolSkewCurve ==
    /\ call_pc = "start"
    /\ call.fn = "vol_skew_curve"
    /\ Finish(Return(vol_skew_curve(call.args.iv_map, call.args.atm_strike)))
    /\ UNCHANGED <<call, oracle, sigVars, clsVars, skewVars, runVars>>

SpecVolSkew == InitVolSkew /\ [][VolSkewCurve]_vars

(***************************************************************************)
(* cross_expiry_rollover(oi_by_expiry)                                     *)
(***************************************************************************)
InitRollover ==
    /\ call \in [fn : {"cross_expiry_rollover"}, args : [oi_by_expiry : OiByExpiry]]
    /\ call_pc = "start"
    /\ call_ret = <<>>
    /\ oracle = NoOracle
    /\ SigIdle /\ ClsIdle /\ SkewIdle /\ RunIdle

CrossExpiryRollover ==
    /\ call_pc = "start"
    /\ call.fn = "cross_expiry_rollover"
    /\ Finish(Return(cross_expiry_rollover(call.args.oi_by_expiry)))
    /\ UNCHANGED <<call, oracle, sigVars, clsVars, skewVars, runVars>>

SpecRollover == InitRollover /\ [][CrossExpiryRollover]_vars

(***************************************************************************)
(* OptionChainAnalyzer.theoretical_vs_market_map(tau_years)                *)
(***************************************************************************)
\* the argument tuples of the bs_call_price calls of line 293
TheoreticalArgs(self, tau_years) ==
    {<<self.spot, s, self.r, get(self.snapshot[s], "ce_iv", truediv(1, 5)), tau_years>> :
        s \in DOMAIN self.snapshot}

InitTheoreticalVsMarket ==
    /\ call \in [fn : {"theoretical_vs_market_map"},
                 args : [self : Analyzers, tau_years : Taus]]
    /\ call_pc = "start"
    /\ call_ret = <<>>
    /\ oracle \in Oracles(TheoreticalArgs(call.args.self, call.args.tau_years),
                            {float(0), float(5)},
                            {f_mul(f_neg(call.args.self.r), call.args.tau_years)})
    /\ SigIdle /\ ClsIdle /\ SkewIdle /\ RunIdle

TheoreticalVsMarketMap ==
    /\ call_pc = "start"
    /\ call.fn = "theoretical_vs_market_map"
    /\ Finish(theoretical_vs_market_map(call.args.self, call.args.tau_years))
    /\ UNCHANGED <<call, oracle, sigVars, clsVars, skewVars, runVars>>

SpecTheoreticalVsMarket == InitTheoreticalVsMarket /\ [][TheoreticalVsMarketMap]_vars

(***************************************************************************)
(* One call of a per-strike map of the facade, on records that lack some   *)
(* of the keys the map reads.                                              *)
(***************************************************************************)
\* the argument tuples of the bs_call_price calls of the gamma map
GammaArgs(self, tau_years) ==
    UNION {{<<S, s, self.r, gamma_sigma(self.snapshot[s]), tau_years>> :
                S \in {f_add(self.spot, f_mul(self.spot, eps_rel)), self.spot,
                       f_sub(self.spot, f_mul(self.spot, eps_rel))}} :
           s \in DOMAIN self.snapshot}

InitOiSkewMap ==
    /\ call \in [fn : {"compute_oi_skew_map"},
                 args : [self : AnalyzersOver({"ce_oi", "pe_oi"})]]
    /\ oracle = NoOracle

InitVolumeOiEfficiencyMap ==
    /\ call \in [fn : {"compute_volume_oi_efficiency_map"},
                 args : [self : {a \in AnalyzersOver({"ce_vol", "pe_vol", "ce_oi_change",
                                                      "pe_oi_change"}) :
                                    a.spot = float(100)},
                         avg_volume_map : SparseAvgVolumeMaps]]
    /\ oracle = NoOracle

InitGammaExposureMap ==
    /\ call \in [fn : {"compute_gamma_exposure_map"},
                 args : [self : AnalyzersOver({"ce_iv", "pe_iv", "ce_oi", "pe_oi"}),
                         tau_years : Taus]]
    /\ oracle \in Oracles(GammaArgs(call.args.self, call.args.tau_years),
                            {float(5), float(8)}, {})

InitFacadeMaps ==
    \/ /\ InitOiSkewMap \/ InitVolumeOiEfficiencyMap \/ InitGammaExposureMap
       /\ call_pc = "start"
       /\ call_ret = <<>>
       /\ SigIdle /\ ClsIdle /\ SkewIdle /\ RunIdle
    \/ InitTheoreticalVsMarket

RunOiSkewMap ==
    /\ call_pc = "start"
    /\ call.fn = "compute_oi_skew_map"
    /\ Finish(compute_oi_skew_map(call.args.self))
    /\ UNCHANGED <<call, oracle, sigVars, clsVars, skewVars, runVars>>

RunVolumeOiEfficiencyMap ==
    /\ call_pc = "start"
    /\ call.fn = "compute_volume_oi_efficiency_map"
    /\ Finish(compute_volume_oi_efficiency_map(call.args.self, call.args.avg_volume_map))
    /\ UNCHANGED <<call, oracle, sigVars, clsVars, skewVars, runVars>>

RunGammaExposureMap ==
    /\ call_pc = "start"
    /\ call.fn = "compute_gamma_exposure_map"
    /\ Finish(compute_gamma_exposure_map(call.args.self, call.args.tau_years))
    /\ UNCHANGED <<call, oracle, sigVars, clsVars, skewVars, runVars>>

NextFacadeMaps ==
    \/ RunOiSkewMap \/ RunVolumeOiEfficiencyMap \/ RunGammaExposureMap
    \/ TheoreticalVsMarketMap

SpecFacadeMaps == InitFacadeMaps /\ [][NextFacadeMaps]_vars

(***************************************************************************)
(* A session with one OptionChainAnalyzer: the object is constructed and   *)
(* then its methods are called, in any order and with any arguments.       *)
(* world = [analyzer, constructed, returned, ncalls]: the object, the      *)
(* object as __init__ left it, what each call returned the first time it   *)
(* was made, and the number of calls so far.                               *)
(***************************************************************************)
\* the closed-form prices of a session: 5 at the spot of the object, 5 or 8
\* at spot + eps and at spot - eps
SessionOracles(self) ==
    LET ts == UNION {GammaArgs(self, tau) \cup TheoreticalArgs(self, tau) : tau \in SessionTaus}
        all == Oracles(ts, {float(5), float(8)},
                       {f_mul(f_neg(self.r), tau) : tau \in SessionTaus})
    IN  {o \in all : \A t, u \in DOMAIN o.closed_form :
                        /\ t[1] = u[1] => o.closed_form[t] = o.closed_form[u]
                        /\ t[1] = self.spot => o.closed_form[t] = float(5)}

InitSession ==
    /\ \E self \in SessionAnalyzers :
          /\ world = [analyzer |-> self, constructed |-> self,
                      returned |-> <<>>, ncalls |-> 0]
          /\ oracle \in SessionOracles(self)
    /\ locals = <<>>
    /\ pc = "session"
    /\ call = [fn |-> "none", args |-> <<>>]
    /\ call_pc = "idle"
    /\ call_ret = <<>>
    /\ SigIdle /\ ClsIdle /\ SkewIdle

\* one method call, from the call to the return or the exception
MethodCall(fn, args, out) ==
    /\ pc = "session"
    /\ world.ncalls < MaxCalls
    /\ call' = [fn |-> fn, args |-> args]
    /\ Finish(out)
    /\ world' = [world EXCEPT
            !.analyzer = self_after(@, fn),
            !.returned = IF <<fn, args>> \in DOMAIN @ THEN @ ELSE (<<fn, args>> :> out) @@ @,
            !.ncalls = @ + 1]
    /\ UNCHANGED <<oracle, locals, pc, sigVars, clsVars, skewVars>>

ComputeOiSkewMap ==
    MethodCall("compute_oi_skew_map", <<>>, compute_oi_skew_map(world.analyzer))

ComputeVolumeOiEfficiencyMap ==
    \E avg_volume_map \in AvgVolumeMaps :
        MethodCall("compute_volume_oi_efficiency_map", <<avg_volume_map>>,
                   compute_volume_oi_efficiency_map(world.analyzer, avg_volume_map))

ComputeGammaExposureMap ==
    \E tau_years \in SessionTaus :
        MethodCall("compute_gamma_exposure_map", <<tau_years>>,
                   compute_gamma_exposure_map(world.analyzer, tau_years))

ComputeVolSmile ==
    \E atm_strike \in ChainStrikes :
        MethodCall("compute_vol_smile", <<atm_strike>>,
                   compute_vol_smile(world.analyzer, atm_strike))

SessionTheoreticalVsMarketMap ==
    \E tau_years \in SessionTaus :
        MethodCall("theoretical_vs_market_map", <<tau_years>>,
                   theoretical_vs_market_map(world.analyzer, tau_years))

IdentifyTopBuildups ==
    \E avg_volume_map \in AvgVolumeMaps, top_n \in TopNs :
        MethodCall("identify_top_buildups", <<avg_volume_map, top_n>>,
                   identify_top_buildups(world.analyzer, avg_volume_map, top_n))

NextSession ==
    \/ ComputeOiSkewMap \/ ComputeVolumeOiEfficiencyMap \/ ComputeGammaExposureMap
    \/ ComputeVolSmile \/ SessionTheoreticalVsMarketMap \/ IdentifyTopBuildups

SpecSession == InitSession /\ [][NextSession]_vars

(***************************************************************************)
(* process_symbol(symbol).  locals = [symbol, signals]; pc is "fetch", the *)
(* key of the try block about to run, "save", "done" or "raised".          *)
(* world = [computed, saved]: the compute calls made with how each ended,  *)
(* and the files written.                                                  *)
(***************************************************************************)
InitProcessSymbol ==
    /\ locals \in [symbol : Symbols, signals : {<<>>}]
    /\ pc = "fetch"
    /\ world = [computed |-> <<>>, saved |-> <<>>]
    /\ SigIdle /\ ClsIdle /\ SkewIdle /\ CallIdle

\* lines 33-61: the fetches either raise, which ends process_symbol, or
\* return, and the chain, the quote and the manifest are saved
FetchData ==
    /\ pc = "fetch"
    /\ \/ /\ pc' = "raised"
          /\ UNCHANGED <<locals, world>>
       \/ /\ pc' = Dimensions[1]
          /\ locals' = [locals EXCEPT !.signals = <<>>]
          /\ world' = [world EXCEPT !.saved =
                            <<"option_chain", "quote", "manifest">>]
    /\ UNCHANGED <<sigVars, clsVars, skewVars, callVars>>

\* the i-th try block of lines 63-86
TryCompute(i) ==
    /\ pc = Dimensions[i]
    /\ \E out \in ComputeOutcomes :
          /\ locals' = [locals EXCEPT !.signals = try_compute(@, Dimensions[i], out)]
          /\ world' = [world EXCEPT !.computed = Append(@, <<Dimensions[i], out>>)]
    /\ pc' = IF i < Len(Dimensions) THEN Dimensions[i + 1] ELSE "save"
    /\ UNCHANGED <<sigVars, clsVars, skewVars, callVars>>

ComputePremiumDiscount == TryCompute(1)
ComputeVolumeOiSpike == TryCompute(2)
ComputeReversalSignals == TryCompute(3)
ComputeOiSkew == TryCompute(4)
ComputeGammaExposure == TryCompute(5)

\* lines 89-92: save_json writes the signals, or raises (an OSError of open,
\* a TypeError of json.dump), which ends process_symbol
SaveAnalytics ==
    /\ pc = "save"
    /\ \/ /\ world' = [world EXCEPT !.saved = Append(@, <<"signals", locals.signals>>)]
          /\ pc' = "done"
       \/ /\ pc' = "raised"
          /\ UNCHANGED world
    /\ UNCHANGED <<locals, sigVars, clsVars, skewVars, callVars>>

NextProcessSymbol ==
    \/ FetchData
    \/ ComputePremiumDiscount \/ ComputeVolumeOiSpike \/ ComputeReversalSignals
    \/ ComputeOiSkew \/ ComputeGammaExposure
    \/ SaveAnalytics

SpecProcessSymbol == InitProcessSymbol /\ [][NextProcessSymbol]_vars

(***************************************************************************)
(* safe_get(session, url, params, timeout).  locals = [url, params,        *)
(* timeout, attempt, last_exc]; pc is "get" before session.get of line 43, *)
(* "sleep" before line 51, "returned" or "raised".  world = [gets, ret,    *)
(* raised]: how each session.get ended, the response returned, the         *)
(* exception that left safe_get.                                           *)
(***************************************************************************)
InitSafeGet ==
    /\ locals \in [url : SafeGetUrls, params : SafeGetParams,
                    timeout : SafeGetTimeouts, attempt : {1}, last_exc : {"None"}]
    /\ pc = "get"
    /\ world = [gets |-> <<>>, ret |-> <<>>, raised |-> ""]
    /\ SigIdle /\ ClsIdle /\ SkewIdle /\ CallIdle

\* lines 42-50: one session.get in its try block
SessionGet ==
    /\ pc = "get"
    /\ \E out \in GetOutcomes :
          /\ IF out.exc = "" /\ out.ret.status_code = 200
             THEN /\ pc' = "returned"
                  /\ world' = [world EXCEPT !.gets = Append(@, out), !.ret = out.ret]
                  /\ UNCHANGED locals
             ELSE /\ pc' = "sleep"
                  /\ world' = [world EXCEPT !.gets = Append(@, out)]
                  /\ locals' = [locals EXCEPT !.last_exc =
                                    IF out.exc = "" THEN status_error(out.ret.status_code)
                                    ELSE out.exc]
    /\ UNCHANGED <<sigVars, clsVars, skewVars, callVars>>

\* line 51, outside the try block, then the loop head of line 41 or the
\* raise of line 52
Sleep ==
    /\ pc = "sleep"
    /\ LET seconds == sleep_seconds(locals.attempt)
       IN  IF seconds.exc # ""
           THEN /\ pc' = "raised"
                /\ world' = [world EXCEPT !.raised = seconds.exc]
                /\ UNCHANGED locals
           ELSE IF locals.attempt < LastAttempt
           THEN /\ pc' = "get"
                /\ locals' = [locals EXCEPT !.attempt = @ + 1]
                /\ UNCHANGED world
           ELSE /\ pc' = "raised"
                /\ world' = [world EXCEPT !.raised = locals.last_exc]
                /\ UNCHANGED locals
    /\ UNCHANGED <<sigVars, clsVars, skewVars, callVars>>

NextSafeGet == SessionGet \/ Sleep

SpecSafeGet == InitSafeGet /\ [][NextSafeGet]_vars

(***************************************************************************)
(* NSESession.get_chain(symbol).  locals = [self, symbol, attempt, url]:   *)
(* self.last_cookie_refresh is 0 or 1 (the time of this run), attempt is   *)
(* 0 before the loop, url is the index into urls.  pc is "refresh" before  *)
(* a refresh_cookies, "attempt" at the loop head, "fetch" before a         *)
(* fetch_json, "backoff" before the sleep, "returned" or "raised".         *)
(* world = [fetches, failed, got, ret, raised]: the fetch_json calls made  *)
(* as <<attempt, url>>, how many returned nothing, how the session.get of  *)
(* the last one ended, what get_chain returned, the exception that left    *)
(* it.                                                                     *)
(***************************************************************************)
InitGetChain ==
    /\ locals \in [self : {[last_cookie_refresh |-> 0]}, symbol : Symbols,
                    attempt : {0}, url : {1}]
    /\ pc = "refresh"
    /\ world = [fetches |-> <<>>, failed |-> 0, got |-> Raise(""),
                ret |-> NoneV, raised |-> ""]
    /\ SigIdle /\ ClsIdle /\ SkewIdle /\ CallIdle

\* refresh_cookies (lines 53-88), called at line 156 and at line 163: it
\* returns at once when the last refresh is less than the interval ago,
\* which it never is for a last_cookie_refresh of 0; else it visits the
\* pages, and records the time unless a visit raised
RefreshCookies ==
    /\ pc = "refresh"
    /\ \E elapsed \in BOOLEAN, visited \in BOOLEAN :
          /\ locals.self.last_cookie_refresh = 0 => elapsed
          /\ locals' = IF elapsed /\ visited
                       THEN [locals EXCEPT !.self.last_cookie_refresh = 1]
                       ELSE locals
    /\ pc' = IF locals.attempt = 0 THEN "attempt" ELSE "fetch"
    /\ UNCHANGED <<world, sigVars, clsVars, skewVars, callVars>>

\* lines 158-163, and lines 176-177 when the loop is exhausted
NextAttempt ==
    /\ pc = "attempt"
    /\ IF locals.attempt < LastChainAttempt
       THEN /\ locals' = [locals EXCEPT !.attempt = @ + 1, !.url = 1]
            /\ pc' = IF (locals.attempt + 1) % 2 = 0 THEN "refresh" ELSE "fetch"
            /\ UNCHANGED world
       ELSE /\ pc' = "returned"
            /\ world' = [world EXCEPT !.ret = NoneV]
            /\ UNCHANGED locals
    /\ UNCHANGED <<sigVars, clsVars, skewVars, callVars>>

\* lines 165-169: one fetch_json of the inner loop
FetchUrl ==
    /\ pc = "fetch"
    /\ \E got \in SessionGets :
          LET data == fetch_json(got)
              made == [world EXCEPT !.fetches = Append(@, <<locals.attempt, urls[locals.url]>>),
                                    !.got = got]
          IN  IF data.exc # ""
              THEN /\ pc' = "raised"
                   /\ world' = [made EXCEPT !.raised = data.exc]
                   /\ UNCHANGED locals
              ELSE IF truthy(data.ret)
              THEN /\ pc' = "returned"
                   /\ world' = [made EXCEPT !.ret = data.ret]
                   /\ UNCHANGED locals
              ELSE /\ world' = [made EXCEPT !.failed = @ + 1]
                   /\ IF locals.url < Len(urls)
                      THEN /\ locals' = [locals EXCEPT !.url = @ + 1]
                           /\ pc' = "fetch"
                      ELSE /\ pc' = "backoff"
                           /\ UNCHANGED locals
    /\ UNCHANGED <<sigVars, clsVars, skewVars, callVars>>

\* lines 171-174
Backoff ==
    /\ pc = "backoff"
    /\ pc' = "attempt"
    /\ UNCHANGED <<locals, world, sigVars, clsVars, skewVars, callVars>>

NextGetChain == RefreshCookies \/ NextAttempt \/ FetchUrl \/ Backoff

SpecGetChain == InitGetChain /\ [][NextGetChain]_vars

(***************************************************************************)
(* All of it.                                                              *)
(***************************************************************************)
Init ==
    \/ InitSignal \/ InitClassify \/ InitSkew \/ InitEfficiency \/ InitBuildup
    \/ InitMisalignment \/ InitBsCall \/ InitTheoreticalVsMarket
    \/ InitVolSkew \/ InitRollover \/ InitSession \/ InitFacadeMaps
    \/ InitProcessSymbol \/ InitSafeGet \/ InitGetChain
Next ==
    \/ DetectSignalRow \/ ClassifyBuildup \/ ClassifyBuildUp \/ OiSkew
    \/ VolumeOiEfficiency \/ IdentifyBuildup
    \/ PremiumMisalignment \/ BsCallPrice \/ TheoreticalVsMarketMap
    \/ VolSkewCurve \/ CrossExpiryRollover
    \/ NextSession \/ NextFacadeMaps
    \/ NextProcessSymbol \/ NextSafeGet \/ NextGetChain
Spec == Init /\ [][Next]_vars

(***************************************************************************)
(* Properties of detect_signal_row (SpecSignal).                           *)
(***************************************************************************)
\* the call has ended, by a return or by an exception
SigEnded == sig_pc \in {"done", "raised"}
\* both price changes of the row are present
PricesPresent == ~isna(row.price_change_CE) /\ ~isna(row.price_change_PE)
SpotAbove == underlying_spot.v > row.strike.v
SpotBelow == underlying_spot.v < row.strike.v
SpotAtStrike == underlying_spot.v = row.strike.v
Bullish == {"SHORT_COVERING", "LONG_BUILDUP"}
Bearish == {"LONG_UNWINDING", "SHORT_BUILDUP"}
IvsPresent == row.iv_pe.k = "num" /\ row.iv_ce.k = "num"
\* pe_iv - ce_iv is negative / positive
IvSkewNegative == IvsPresent /\ row.iv_pe.v - row.iv_ce.v < 0
IvSkewPositive == IvsPresent /\ row.iv_pe.v - row.iv_ce.v > 0
Sign(x) == IF x.v > 0 THEN 1 ELSE IF x.v < 0 THEN -1 ELSE 0
OiDiffsPresent == row.oi_diff.k = "num" /\ row.oi_diff_prev.k = "num"
Bonus(b) == IF b THEN 1 ELSE 0

\* C1: for a row whose CE and PE price changes are present, the call returns
\* CALL_BUY if and only if spot > strike, the CE build-up is short covering or
\* long build-up and the PE build-up is long unwinding or short build-up.
C1_CallBuyIff ==
    (SigEnded /\ PricesPresent) =>
        ((sig_pc = "done" /\ sig_ret[1] = "CALL_BUY")
            <=> (SpotAbove /\ ce_bu(row) \in Bullish /\ pe_bu(row) \in Bearish))

C1_Witness ==
    sig_pc = "done" /\ sig_ret[1] = "CALL_BUY" /\ ce_bu(row) = "LONG_BUILDUP"

\* C2: for a row whose CE and PE price changes are present, the call returns
\* PUT_BUY if and only if spot < strike, the PE build-up is short covering or
\* long build-up and the CE build-up is long unwinding or short build-up.
C2_PutBuyIff ==
    (SigEnded /\ PricesPresent) =>
        ((sig_pc = "done" /\ sig_ret[1] = "PUT_BUY")
            <=> (SpotBelow /\ pe_bu(row) \in Bullish /\ ce_bu(row) \in Bearish))

C2_Witness ==
    sig_pc = "done" /\ sig_ret[1] = "PUT_BUY" /\ ce_bu(row) = "SHORT_BUILDUP"

\* C3: the CALL BUY and the PUT BUY block never both run for one row, the
\* returned signal is None, CALL_BUY or PUT_BUY, and the returned score is an
\* integer in 0..4.
C3_OneSignalScoreRange ==
    sig_pc = "done" =>
        /\ ~(PricesPresent /\ call_fires(row, underlying_spot)
                           /\ put_fires(row, underlying_spot))
        /\ sig_ret[1] \in {None, "CALL_BUY", "PUT_BUY"}
        /\ sig_ret[3] \in 0..4

C3_Witness == sig_pc = "done" /\ sig_ret[1] = "PUT_BUY" /\ sig_ret[3] = 4

\* C4: an emitted signal scores 2, plus 1 when the OI difference flipped, plus
\* 1 when the IV skew favours the direction (negative for CALL_BUY, positive
\* for PUT_BUY); a skew of the other sign or of zero adds nothing.
C4_ScoreFormula ==
    (sig_pc = "done" /\ sig_ret[1] # None) =>
        sig_ret[3] = 2 + Bonus(oi_flip(row) = True)
                       + Bonus(IF sig_ret[1] = "CALL_BUY" THEN IvSkewNegative
                                                           ELSE IvSkewPositive)

C4_Witness ==
    /\ sig_pc = "done" /\ sig_ret[1] = "CALL_BUY"
    /\ oi_flip(row) = True /\ IvsPresent /\ ~IvSkewNegative /\ sig_ret[3] = 3

\* the inputs of the two worked examples: no OI flip and ivSkew = 0.3
C5_CallInputs ==
    /\ SpotAbove /\ ce_bu(row) = "SHORT_COVERING" /\ pe_bu(row) = "LONG_UNWINDING"
    /\ oi_flip(row) = False /\ iv_skew(row) = Num(3)
C5_PutInputs ==
    /\ SpotBelow /\ pe_bu(row) = "SHORT_COVERING" /\ ce_bu(row) = "LONG_UNWINDING"
    /\ oi_flip(row) = False /\ iv_skew(row) = Num(3)

\* C5 as stated: on the call example the call returns CALL_BUY with score 2 and
\* on the put example, with the same ivSkew = 0.3, PUT_BUY with score 2.
C5_AsStated ==
    sig_pc = "done" =>
        /\ (C5_CallInputs => sig_ret[1] = "CALL_BUY" /\ sig_ret[3] = 2)
        /\ (C5_PutInputs => sig_ret[1] = "PUT_BUY" /\ sig_ret[3] = 2)

\* C5 (amended): on the call example the call returns CALL_BUY with score 2; on
\* the put example, with the same ivSkew = 0.3, it returns PUT_BUY with score
\* 3, the positive skew being favourable for puts.
C5_Examples ==
    SigEnded =>
        /\ (C5_CallInputs => sig_pc = "done" /\ sig_ret[1] = "CALL_BUY" /\ sig_ret[3] = 2)
        /\ (C5_PutInputs => sig_pc = "done" /\ sig_ret[1] = "PUT_BUY" /\ sig_ret[3] = 3)

C5_Witness == sig_pc = "done" /\ C5_PutInputs /\ sig_ret[3] = 3

\* C6: with spot equal to the strike the call returns no signal, an empty
\* reason and score 0, whatever the build-ups, OI differences and IVs are.
C6_AtStrikeNoSignal ==
    (sig_pc = "done" /\ SpotAtStrike) => sig_ret = <<None, "", 0>>

C6_Witness ==
    /\ sig_pc = "done" /\ SpotAtStrike /\ PricesPresent
    /\ ce_bu(row) \in Bullish /\ pe_bu(row) \in Bearish
    /\ oi_flip(row) = True /\ IvSkewNegative

\* C7: when the CE or the PE price change is missing, the call returns
\* (None, "", 0) and raises nothing, whatever the other fields and the spot.
C7_MissingPriceChange ==
    (SigEnded /\ ~PricesPresent) =>
        (sig_pc = "done" /\ sig_ret = <<None, "", 0>>)

C7_Witness ==
    /\ sig_pc = "done"
    /\ row.price_change_CE = Num(1) /\ row.oi_change_CE = NoneV
    /\ row.price_change_PE = NoneV /\ SpotAbove

\* C8 as stated: on an emitted signal the OI flip, and so its +1, is there if
\* and only if the sign of oi_diff differs from the sign of oi_diff_prev.
C8_AsStated ==
    (sig_pc = "done" /\ sig_ret[1] # None /\ OiDiffsPresent) =>
        /\ (oi_flip(row) = True) <=> (Sign(row.oi_diff) # Sign(row.oi_diff_prev))
        /\ sig_ret[3] = 2 + Bonus(Sign(row.oi_diff) # Sign(row.oi_diff_prev))
                          + Bonus(IF sig_ret[1] = "CALL_BUY" THEN IvSkewNegative
                                                              ELSE IvSkewPositive)

\* oi_diff_prev and oi_diff are both non-zero numbers of opposite signs
StrictFlip ==
    /\ OiDiffsPresent
    /\ Sign(row.oi_diff) * Sign(row.oi_diff_prev) = -1

\* C8 (amended): on an emitted signal the OI flip, and so its +1, is there if
\* and only if oi_diff_prev and oi_diff are both non-zero and of opposite
\* signs; a difference that was or becomes zero, or a missing previous
\* difference, is no flip.
C8_StrictFlip ==
    (sig_pc = "done" /\ sig_ret[1] # None) =>
        /\ (oi_flip(row) = True) <=> StrictFlip
        /\ sig_ret[3] = 2 + Bonus(StrictFlip)
                          + Bonus(IF sig_ret[1] = "CALL_BUY" THEN IvSkewNegative
                                                              ELSE IvSkewPositive)

C8_Witness ==
    /\ sig_pc = "done" /\ sig_ret[1] = "PUT_BUY"
    /\ row.oi_diff_prev = Num(-1) /\ row.oi_diff = Num(1)
    /\ IvsPresent /\ ~IvSkewPositive /\ sig_ret[3] = 3

(***************************************************************************)
(* Properties of the build-up classifiers (SpecClassify).                  *)
(***************************************************************************)
\* the five-row table over the signs of (priceChange, oiChange)
BuildUpTable(p, o) ==
    IF p > 0 /\ o > 0 THEN "long_build_up"
    ELSE IF p < 0 /\ o > 0 THEN "short_build_up"
    ELSE IF p > 0 /\ o < 0 THEN "short_covering"
    ELSE IF p < 0 /\ o < 0 THEN "long_unwinding"
    ELSE "neutral"

\* the signal engine's label in the spelling of the analytics labels
Spelling(label) ==
    CASE label = "LONG_BUILDUP" -> "long_build_up"
      [] label = "SHORT_BUILDUP" -> "short_build_up"
      [] label = "SHORT_COVERING" -> "short_covering"
      [] label = "LONG_UNWINDING" -> "long_unwinding"
      [] label = "NEUTRAL" -> "neutral"
      [] OTHER -> label

ClsNumeric == cls_price_change.k = "num" /\ cls_oi_change.k = "num"

\* C9: on numbers both classifiers follow the table (long_build_up for (+,+),
\* short_build_up for (-,+), short_covering for (+,-), long_unwinding for
\* (-,-), neutral when either is 0), and on every input classify_buildup gives
\* the class classify_build_up gives, up to the spelling of the label.
C9_ClassifierTable ==
    /\ (cls_chain \notin {"idle", "pending"} /\ ClsNumeric) =>
           cls_chain = BuildUpTable(cls_price_change.v, cls_oi_change.v)
    /\ (cls_engine \notin {"idle", "pending"} /\ ClsNumeric) =>
           Spelling(cls_engine) = BuildUpTable(cls_price_change.v, cls_oi_change.v)
    /\ (cls_chain \notin {"idle", "pending"} /\ cls_engine \notin {"idle", "pending"}) =>
           Spelling(cls_engine) = cls_chain

C9_Witness ==
    /\ cls_price_change = Num(1) /\ cls_oi_change = Num(-MaxDelta)
    /\ cls_chain = "short_covering" /\ cls_engine = "SHORT_COVERING"

C10_SkewRatioRange ==
    (skew_pc = "done" /\ ce_oi >= 0 /\ pe_oi >= 0) =>
        /\ skew_ret[1] = ce_oi - pe_oi
        /\ skew_ret[2].den > 0
        /\ -skew_ret[2].den <= skew_ret[2].num
        /\ skew_ret[2].num <= skew_ret[2].den
        /\ abs(skew_ret[1]) <= ce_oi + pe_oi

C10_Witness ==
    /\ skew_pc = "done" /\ ce_oi = 0 /\ pe_oi = MaxOI
    /\ skew_ret = <<-MaxOI, [num |-> -1, den |-> 1]>>

(***************************************************************************)
(* Properties of volume_oi_efficiency (SpecEfficiency).                    *)
(***************************************************************************)
CallEnded == call_pc \in {"done", "raised"}

\* C12: with avg_volume = 0 or volume = 0 the call returns 0.0, whatever the
\* OI change is, and raises no division error.
C12_EfficiencyZero ==
    (call.fn = "volume_oi_efficiency" /\ CallEnded
        /\ (call.args.avg_volume = 0 \/ call.args.volume = 0)) =>
        (call_pc = "done" /\ call_ret = FloatZero)

C12_Witness ==
    /\ call.fn = "volume_oi_efficiency" /\ call_pc = "done"
    /\ call.args.volume = 0 /\ call.args.avg_volume = MaxVolume
    /\ call.args.oi_change = -MaxVolume /\ call_ret = FloatZero

(***************************************************************************)
(* Properties of identify_buildup (SpecBuildup).                           *)
(***************************************************************************)
HighVolume == call.args.volume > call.args.avg_volume

\* C13: the label is a Fresh Long / Fresh Short Buildup exactly when volume >
\* avg_volume and oi_change > 0 (Fresh Long for a positive price change, Fresh
\* Short for a negative one), "Position Unwinding" exactly when volume >
\* avg_volume and oi_change < 0, and "Neutral" in every other case.
C13_BuildupLabels ==
    (call.fn = "identify_buildup" /\ call_pc = "done") =>
        /\ (call_ret \in {"Fresh Long Buildup", "Fresh Short Buildup"})
               <=> (HighVolume /\ call.args.oi_change > 0)
        /\ (HighVolume /\ call.args.oi_change > 0 /\ call.args.price_change > 0)
               => call_ret = "Fresh Long Buildup"
        /\ (HighVolume /\ call.args.oi_change > 0 /\ call.args.price_change < 0)
               => call_ret = "Fresh Short Buildup"
        /\ (call_ret = "Position Unwinding")
               <=> (HighVolume /\ call.args.oi_change < 0)
        /\ (call_ret = "Neutral")
               <=> (~HighVolume \/ call.args.oi_change = 0)

C13_Witness ==
    /\ call.fn = "identify_buildup" /\ call_pc = "done"
    /\ HighVolume /\ call.args.oi_change < 0 /\ call.args.price_change > 0
    /\ call_ret = "Position Unwinding"

RECURSIVE IvTotal(_, _)
\* the sum of the IVs of the strikes in ks, as numerator over 10 * den 1:
\* every IV of SmileIVs is a multiple of 1/10
IvTotal(iv_map, ks) ==
    IF ks = {} THEN 0
    ELSE LET k == CHOOSE x \in ks : TRUE
         IN  (iv_map[k].num * 10) \div iv_map[k].den + IvTotal(iv_map, ks \ {k})

\* avg is the arithmetic mean of the IVs of the strikes in ks, 0.0 for none
IsAverage(avg, iv_map, ks) ==
    IF ks = {} THEN avg = FloatZero
    ELSE avg.den > 0 /\ avg.num * 10 * Cardinality(ks) = avg.den * IvTotal(iv_map, ks)

StrikesBelow(iv_map, atm) == {k \in DOMAIN iv_map : k.num * atm.den < atm.num * k.den}
StrikesAbove(iv_map, atm) == {k \in DOMAIN iv_map : k.num * atm.den > atm.num * k.den}

\* C16: left_avg is the mean IV of the strikes strictly below the ATM strike
\* and right_avg that of the strikes strictly above it (a strike equal to ATM
\* is in neither), 0.0 for an empty side; overall_skew = right_avg - left_avg;
\* steepness = max - min of the two averages, is >= 0 and is |overall_skew|.
C16_SkewCurve ==
    (call.fn = "vol_skew_curve" /\ call_pc = "done") =>
        LET iv_map == call.args.iv_map
            atm == call.args.atm_strike
            l == call_ret.left_avg
            r == call_ret.right_avg
            skew == call_ret.overall_skew
            steep == call_ret.steepness
        IN  /\ IsAverage(l, iv_map, StrikesBelow(iv_map, atm))
            /\ IsAverage(r, iv_map, StrikesAbove(iv_map, atm))
            /\ skew.den > 0 /\ steep.den > 0
            /\ skew.num * l.den * r.den = skew.den * (r.num * l.den - l.num * r.den)
            /\ steep.num >= 0
            /\ steep = [num |-> abs(skew.num), den |-> skew.den]

C16_Witness ==
    /\ call.fn = "vol_skew_curve" /\ call_pc = "done"
    /\ DOMAIN call.args.iv_map = SmileStrikes
    /\ call.args.atm_strike = float(100)
    /\ call_ret.left_avg = truediv(3, 10)
    /\ call_ret.right_avg = truediv(1, 10)
    /\ call_ret.overall_skew = truediv(-1, 5)
    /\ call_ret.steepness = truediv(1, 5)

(***************************************************************************)
(* Properties of cross_expiry_rollover (SpecRollover).                     *)
(***************************************************************************)
RolloverReturned == call.fn = "cross_expiry_rollover" /\ call_pc = "done"

\* the OI of strike s at the i-th expiry of the returned order, 0 where the
\* expiry has no such strike
OiAt(s, i) ==
    LET s_map == call.args.oi_by_expiry[call_ret.expiries[i]]
    IN  IF s \in DOMAIN s_map THEN s_map[s] ELSE 0

RECURSIVE OiTotal(_, _, _)
\* the OI of strike s summed over the expiries at positions from..to
OiTotal(s, from, to) ==
    IF from > to THEN 0 ELSE OiAt(s, from) + OiTotal(s, from + 1, to)

NearCount == IF Len(call_ret.expiries) \div 2 > 1 THEN Len(call_ret.expiries) \div 2 ELSE 1
NearOf(s) == OiTotal(s, 1, NearCount)
FarOf(s) == OiTotal(s, NearCount + 1, Len(call_ret.expiries))

Example == (W1 :> (100 :> 200 @@ 105 :> 50) @@ M1 :> (100 :> 250 @@ 105 :> 300))

\* C18: on the example W1 is the near half and M1 the far half (strike 105:
\* near 50, far 300; strike 100: near 200, far 250), and both strikes are
\* marked "Rollover to far expiry".
C18_AsStated ==
    (RolloverReturned /\ call.args.oi_by_expiry = Example) =>
        /\ call_ret.expiries = <<W1, M1>>
        /\ NearOf(105) = 50 /\ FarOf(105) = 300
        /\ NearOf(100) = 200 /\ FarOf(100) = 250
        /\ call_ret.signals = (100 :> "Rollover to far expiry" @@ 105 :> "Rollover to far expiry")

\* the list of OI values of strike s in the returned expiry order
ValsOf(s) == [i \in 1..Len(call_ret.expiries) |-> OiAt(s, i)]

\* C19: with exactly one expiry, the single OI value of each strike is its
\* near sum, its far sum is 0, and every strike is "Stable/No Rollover".
C19_SingleExpiry ==
    (RolloverReturned /\ Cardinality(DOMAIN call.args.oi_by_expiry) = 1) =>
        \A s \in DOMAIN call_ret.signals :
            /\ near(ValsOf(s)) = OiAt(s, 1)
            /\ far(ValsOf(s)) = 0
            /\ call_ret.signals[s] = "Stable/No Rollover"

C19_Witness ==
    /\ RolloverReturned
    /\ call.args.oi_by_expiry = (W1 :> (100 :> 300 @@ 105 :> 50))
    /\ near(ValsOf(100)) = 300 /\ far(ValsOf(100)) = 0
    /\ call_ret.signals = (100 :> "Stable/No Rollover" @@ 105 :> "Stable/No Rollover")

(***************************************************************************)
(* Properties of theoretical_vs_market_map (SpecTheoreticalVsMarket).      *)
(***************************************************************************)
\* the edge policy of premium_misalignment, on one side of an entry
EdgePolicy(theoretical, market, misal) ==
    theoretical.num = 0 => misal = (IF market.num # 0 THEN market ELSE FloatZero)

MapReturned == call.fn = "theoretical_vs_market_map" /\ call_pc = "done"

\* C15: at every strike of the map, when ce_theoretical (pe_theoretical) is
\* exactly 0, ce_misal (pe_misal) is the market premium of that side if it is
\* non-zero and 0 otherwise.
C15_AsStated ==
    MapReturned =>
        \A s \in DOMAIN call_ret :
            /\ EdgePolicy(call_ret[s].ce_theoretical, call_ret[s].ce_market,
                          call_ret[s].ce_misal)
            /\ EdgePolicy(call_ret[s].pe_theoretical, call_ret[s].pe_market,
                          call_ret[s].pe_misal)

\* exp(-r * tau) of the call
Discount == math_exp(f_mul(f_neg(call.args.self.r), call.args.tau_years))

\* pe_theoretical = ce_theoretical + K * exp(-r * tau) - S at strike s of the
\* returned map, on the numerators and denominators of the fractions
ParityAt(s) ==
    LET c == call_ret[s].ce_theoretical
        p == call_ret[s].pe_theoretical
        e == Discount
        S == call.args.self.spot
    IN  /\ p.den > 0
        /\ p.num * c.den * s.den * e.den * S.den =
               p.den * (c.num * s.den * e.den * S.den
                        + s.num * e.num * c.den * S.den
                        - S.num * c.den * s.den * e.den)

\* max(0, K - S)
PutIntrinsic(s) == f_max(FloatZero, f_sub(s, call.args.self.spot))

\* C21, as stated: parity holds at every strike, and with tau <= 0 the
\* theoretical put is max(0, K - S) and not negative.
C21_AsStated ==
    MapReturned =>
        \A s \in DOMAIN call_ret :
            /\ ParityAt(s)
            /\ call.args.tau_years.num <= 0 =>
                    /\ call_ret[s].pe_theoretical = PutIntrinsic(s)
                    /\ call_ret[s].pe_theoretical.num >= 0

\* C21, amended: parity holds at every strike; with tau <= 0 and r >= 0 the
\* theoretical put is at least max(0, K - S), so not negative, and it is
\* max(0, K - S) itself when exp(-r * tau) is 1, that is for r * tau = 0.
C21_Parity ==
    MapReturned =>
        \A s \in DOMAIN call_ret :
            /\ ParityAt(s)
            /\ (call.args.tau_years.num <= 0 /\ call.args.self.r.num >= 0) =>
                    /\ f_le(PutIntrinsic(s), call_ret[s].pe_theoretical)
                    /\ Discount = float(1) =>
                            call_ret[s].pe_theoretical = PutIntrinsic(s)
                    /\ call_ret[s].pe_theoretical = PutIntrinsic(s) =>
                            Discount = float(1)

\* an expired chain (tau < 0) at a positive rate: the call is at its
\* intrinsic 5, the put at 5 + 100 * 11/10 - 105 = 10, above max(0, K - S) = 0
C21_Witness ==
    /\ MapReturned
    /\ call.args.tau_years.num < 0 /\ call.args.self.r.num > 0
    /\ call.args.self.spot = float(105)
    /\ float(100) \in DOMAIN call_ret
    /\ call_ret[float(100)].ce_theoretical = float(5)
    /\ call_ret[float(100)].pe_theoretical = float(10)

(***************************************************************************)
(* Properties of bs_call_price (SpecBsCall).                               *)
(***************************************************************************)
\* C20: with tau <= 0 or sigma <= 0 the call returns the intrinsic value
\* max(0, S - K), for K = 0 and S <= 0 as well, and raises nothing: the
\* closed form, with its division and its logarithm, is not evaluated.
C20_IntrinsicAtExpiry ==
    (call.fn = "bs_call_price" /\ CallEnded
        /\ (call.args.tau.num <= 0 \/ call.args.sigma.num <= 0)) =>
        LET S == call.args.S.num
            K == call.args.K.num
        IN  /\ call_pc = "done"
            /\ call_ret = [num |-> IF S - K > 0 THEN S - K ELSE 0, den |-> 1]

C20_Witness ==
    /\ call.fn = "bs_call_price" /\ call_pc = "done"
    /\ call.args.K = float(0) /\ call.args.S = float(-5)
    /\ call.args.sigma = float(0) /\ call.args.tau.num > 0
    /\ call_ret = FloatZero

(***************************************************************************)
(* Properties of the per-strike maps of the facade (SpecFacadeMaps).       *)
(***************************************************************************)
PerStrikeMaps ==
    {"compute_oi_skew_map", "compute_volume_oi_efficiency_map",
     "compute_gamma_exposure_map", "theoretical_vs_market_map"}

\* C23: a per-strike map called on records that lack optional keys (and
\* with an average-volume map that lacks strikes) returns, raising nothing,
\* a map with an entry for every strike of the snapshot.
C23_EveryStrikeHasEntry ==
    (call.fn \in PerStrikeMaps /\ CallEnded) =>
        /\ call_pc = "done"
        /\ DOMAIN call_ret = DOMAIN call.args.self.snapshot

\* the gamma map of a snapshot whose record at 105 has neither IV nor OI
C23_Witness ==
    /\ call.fn = "compute_gamma_exposure_map" /\ call_pc = "done"
    /\ f_lt(FloatZero, call.args.tau_years)
    /\ DOMAIN call.args.self.snapshot[float(105)] = {}
    /\ DOMAIN call.args.self.snapshot[float(100)] = {"ce_iv", "pe_iv", "ce_oi", "pe_oi"}
    /\ DOMAIN call_ret = ChainStrikes
    /\ call_ret[float(105)] = FloatZero
    /\ call_ret[float(100)].num # 0

(***************************************************************************)
(* Properties of a session with the facade (SpecSession).                  *)
(***************************************************************************)
InSession == pc = "session" /\ call_pc \in {"done", "raised"}

\* what the call just made returned the first time it was made
FirstOutcome == world.returned[<<call.fn, call.args>>]

SavedSignals == world.saved[Len(world.saved)][2]

\* C24: when process_symbol has saved its signals, every one of the five
\* compute calls was made, once and in order, whichever of them raised; the
\* saved signals have all five keys; a dimension whose compute raised holds
\* {"error": ...} of its own exception, and every other holds its value.
C24_DimensionsIsolated ==
    (pc = "done" /\ "signals" \in DOMAIN locals) =>
        /\ Len(world.computed) = Len(Dimensions)
        /\ DOMAIN SavedSignals = {Dimensions[i] : i \in 1..Len(Dimensions)}
        /\ \A i \in 1..Len(Dimensions) :
                LET key == world.computed[i][1]
                    out == world.computed[i][2]
                IN  /\ key = Dimensions[i]
                    /\ SavedSignals[key] =
                            IF out.exc = "" THEN out.ret ELSE [error |-> out.exc]

\* the first and the fourth dimension raise, the others return
C24_Witness ==
    /\ pc = "done" /\ "signals" \in DOMAIN locals
    /\ SavedSignals["premium_discount"] = [error |-> "AttributeError"]
    /\ SavedSignals["volume_oi_spike"] = [signal |-> "value"]
    /\ SavedSignals["reversal_signals"] = [signal |-> "value"]
    /\ SavedSignals["oi_skew"] = [error |-> "KeyError"]
    /\ SavedSignals["gamma_exposure"] = [signal |-> "value"]

(***************************************************************************)
(* Properties of safe_get (SpecSafeGet).                                   *)
(***************************************************************************)
InSafeGet == "last_exc" \in DOMAIN locals

\* the session.get that ended with a response of status 200
Succeeded(out) == out.exc = "" /\ out.ret.status_code = 200

\* C25: safe_get makes up to five GET attempts: it returns the first
\* response of status 200, after a failed attempt that is not the fifth it
\* goes on to the next attempt, and it raises only after five failed
\* attempts, and then the error of the last one.
C25_AsStated ==
    InSafeGet =>
        /\ Len(world.gets) <= LastAttempt
        /\ pc = "returned" =>
                /\ Succeeded(world.gets[Len(world.gets)])
                /\ \A i \in 1..(Len(world.gets) - 1) : ~Succeeded(world.gets[i])
        /\ pc = "raised" =>
                /\ Len(world.gets) = LastAttempt
                /\ \A i \in 1..Len(world.gets) : ~Succeeded(world.gets[i])
                /\ world.raised = locals.last_exc

(***************************************************************************)
(* Properties of NSESession.get_chain (SpecGetChain).                      *)
(***************************************************************************)
InGetChain == "self" \in DOMAIN locals

\* the i-th of the fetches of 8 attempts over 3 urls in order of priority
ChainOrder(i) == <<((i - 1) \div Len(urls)) + 1, urls[((i - 1) % Len(urls)) + 1]>>

\* a response that carries a payload: JSON, not an HTML page, a dict with
\* records that are not empty and without an error
Payload(got) ==
    /\ got.exc = ""
    /\ ~_is_html_response(got.ret.text)
    /\ is_json_content_type(got.ret.content_type)
    /\ got.ret.json.kind = "dict"
    /\ "records" \in got.ret.json.keys /\ "error" \notin got.ret.json.keys
    /\ got.ret.json.records = "full"

\* C26: get_chain makes its fetches in the order attempt 1 url 1, 2, 3,
\* attempt 2 url 1, ... and at most 8 x 3 of them; every fetch before the
\* last made has failed; no exception leaves it; it returns the payload of
\* the first fetch that succeeds, with no fetch after it, and it returns
\* None exactly when all 24 fetches have failed.
C26_FirstPayloadOrNone ==
    InGetChain =>
        /\ Len(world.fetches) <= LastChainAttempt * Len(urls)
        /\ \A i \in 1..Len(world.fetches) : world.fetches[i] = ChainOrder(i)
        /\ world.failed >= Len(world.fetches) - 1
        /\ pc # "raised"
        /\ world.failed < Len(world.fetches) =>
                /\ pc = "returned"
                /\ Payload(world.got)
                /\ world.ret = DictV(world.got.ret.json)
        /\ pc = "returned" =>
                (world.ret.k = "none") =
                    (world.failed = LastChainAttempt * Len(urls))
        /\ (pc = "returned" /\ world.ret.k # "none") =>
                world.failed = Len(world.fetches) - 1
        /\ (world.failed = Len(world.fetches) /\ world.failed > 0) =>
                ~Payload(world.got)

\* the payload comes from the fallback url at the second attempt, after
\* five failed fetches the last of which raised an unexpected exception
C26_Witness ==
    /\ InGetChain /\ pc = "returned"
    /\ world.ret.k = "dict"
    /\ world.fetches[Len(world.fetches)] = <<2, urls[3]>>
    /\ world.failed = 5

====
